---- MODULE Spec2Model ----
(***************************************************************************)
(* Consistency-validation engine of the customs backend: the fuzzy string  *)
(* matcher, the five business rules R1..R5 and validate_all_rules          *)
(* (core/validator.py).                                                    *)
(*                                                                         *)
(* Representation of Python values                                         *)
(*   str    a sequence of characters; a character is one TLA+ string token *)
(*          ("a", "A", " ", "e_acute" for U+00E9, "acute" for the          *)
(*          combining mark U+0301, ...)                                    *)
(*   field  a record [ty, v]: ty is the Python type name of the value the  *)
(*          field holds, v the characters of a str (or the digits of an    *)
(*          int); the schema declares str, yet attribute assignment can    *)
(*          put any object there                                           *)
(*   float  a decimal literal in thousandths, converted to binary64 by     *)
(*          the operators of the floating-point section                    *)
(***************************************************************************)
EXTENDS Integers, Sequences, FiniteSets, TLC

VARIABLES
    call,            \* harness of the pure functions: arguments and result
    extracted_data,  \* AllExtractedData handed to validate_all_rules
    driver_name,     \* original_data.driverData.name
    hoy,             \* datetime.now(): [ordinal, second], day and second of it
    pc,              \* position inside validate_all_rules
    all_errors       \* the list validate_all_rules accumulates

vars == <<call, extracted_data, driver_name, hoy, pc, all_errors>>

(***************************************************************************)
(* Characters and the str methods the validator uses                       *)
(***************************************************************************)
UpperLetters ==
    <<"A","B","C","D","E","F","G","H","I","J","K","L","M",
      "N","O","P","Q","R","S","T","U","V","W","X","Y","Z">>

LowerLetters ==
    <<"a","b","c","d","e","f","g","h","i","j","k","l","m",
      "n","o","p","q","r","s","t","u","v","w","x","y","z">>

Digits == {"0","1","2","3","4","5","6","7","8","9"}

\* str.isspace for one character
IsSpace(c) == c \in {" ", "\t", "\n"}

\* the precomposed letters of the model's alphabet with their canonical
\* decomposition: base letter and combining mark
Precomposed == <<"a_acute", "e_acute", "i_acute", "o_acute", "u_acute", "n_tilde",
                 "A_acute", "E_acute">>
BaseLetter ==  <<"a", "e", "i", "o", "u", "n", "A", "E">>
CombiningMark == <<"acute", "acute", "acute", "acute", "acute", "tilde",
                   "acute", "acute">>

\* unicodedata.normalize('NFD', c) for one character
NFD(c) ==
    IF \E i \in DOMAIN Precomposed : Precomposed[i] = c
    THEN LET i == CHOOSE k \in DOMAIN Precomposed : Precomposed[k] = c
         IN  <<BaseLetter[i], CombiningMark[i]>>
    ELSE <<c>>

\* unicodedata.category(c) == 'Mn'
IsMn(c) == c \in {"acute", "tilde"}

\* str.lower for one character
char_lower(c) ==
    IF \E i \in DOMAIN UpperLetters : UpperLetters[i] = c
    THEN LowerLetters[CHOOSE i \in DOMAIN UpperLetters : UpperLetters[i] = c]
    ELSE c

str_lower(s) == [i \in 1..Len(s) |-> char_lower(s[i])]

RECURSIVE str_nfd(_)
str_nfd(s) == IF s = <<>> THEN <<>> ELSE NFD(Head(s)) \o str_nfd(Tail(s))

\* length of the leading run of non-space characters
WordLen(s) ==
    IF \E i \in 1..Len(s) : IsSpace(s[i])
    THEN (CHOOSE i \in 1..Len(s) :
              IsSpace(s[i]) /\ \A j \in 1..(i - 1) : ~IsSpace(s[j])) - 1
    ELSE Len(s)

\* str.split(): the maximal runs of non-space characters, in order
RECURSIVE str_split(_)
str_split(s) ==
    IF s = <<>> THEN <<>>
    ELSE IF IsSpace(Head(s)) THEN str_split(Tail(s))
    ELSE <<SubSeq(s, 1, WordLen(s))>>
             \o str_split(SubSeq(s, WordLen(s) + 1, Len(s)))

\* ' '.join(words)
RECURSIVE str_join(_)
str_join(words) ==
    IF words = <<>> THEN <<>>
    ELSE IF Len(words) = 1 THEN words[1]
    ELSE words[1] \o <<" ">> \o str_join(Tail(words))

\* a in b (substring test); the empty string is in every string
str_in(a, b) ==
    \E i \in 0..(Len(b) - Len(a)) : SubSeq(b, i + 1, i + Len(a)) = a

SeqToSet(q) == {q[i] : i \in 1..Len(q)}

(***************************************************************************)
(* normalize_string and strings_match                                      *)
(***************************************************************************)
\* the marks dropped before the text is decomposed
normalize_string_StripBeforeNFD(text) ==
    LET stripped == str_nfd(SelectSeq(text, LAMBDA c : ~IsMn(c)))
    IN  str_join(str_split(str_lower(stripped)))

normalize_string(text) ==
    LET stripped == SelectSeq(str_nfd(text), LAMBDA c : ~IsMn(c))
    IN  str_join(str_split(str_lower(stripped)))

\* A threshold is a decimal literal n/10, kept as the pair <<n, 10>>.  The
\* code compares the double len(intersection)/len(union) with the double of
\* the literal: both are correctly rounded, rounding is monotone, and two
\* different fractions with these small denominators are many ulps apart,
\* so the comparison of the doubles is the comparison of the fractions.
DEFAULT_THRESHOLD == <<9, 10>>
RELAXED_THRESHOLD == <<7, 10>>

\* containment tested in one direction only
strings_match_OneWayContainment(str1, str2, threshold) ==
    LET norm1 == normalize_string(str1)
        norm2 == normalize_string(str2)
        words1 == SeqToSet(str_split(norm1))
        words2 == SeqToSet(str_split(norm2))
    IN  IF norm1 = norm2 THEN TRUE
        ELSE IF str_in(norm1, norm2) THEN TRUE
        ELSE IF words1 = {} \/ words2 = {} THEN FALSE
        ELSE Cardinality(words1 \cap words2) * threshold[2]
                 >= threshold[1] * Cardinality(words1 \cup words2)

strings_match(str1, str2, threshold) ==
    LET norm1 == normalize_string(str1)
        norm2 == normalize_string(str2)
        words1 == SeqToSet(str_split(norm1))
        words2 == SeqToSet(str_split(norm2))
    IN  IF norm1 = norm2 THEN TRUE
        ELSE IF str_in(norm1, norm2) \/ str_in(norm2, norm1) THEN TRUE
        ELSE IF words1 = {} \/ words2 = {} THEN FALSE
        ELSE Cardinality(words1 \cap words2) * threshold[2]
                 >= threshold[1] * Cardinality(words1 \cup words2)

(***************************************************************************)
(* binary64 arithmetic.  cantidad and peso_monto are Python floats: the    *)
(* extraction reads them with json.loads from decimal literals, R3         *)
(* subtracts them and compares with the literal 0.01.  A positive double   *)
(* is [m, e]: m its significand, most significant bit first, exactly       *)
(* DoublePrecision bits with a leading 1, e the exponent of the last bit   *)
(* (value = m * 2^e); zero is [m |-> <<>>, e |-> 0].  The quantities the   *)
(* model draws are far from the subnormal and overflow ranges.             *)
(***************************************************************************)
DoublePrecision == 53

FloatZero == [m |-> <<>>, e |-> 0]

Zeros(n) == [i \in 1..n |-> 0]

\* binary digits of a natural number below 2^30, most significant first
IntBits(q) ==
    LET n == CHOOSE c \in 0..30 : q < 2^c /\ (c = 0 \/ 2^(c - 1) <= q)
    IN  [i \in 1..n |-> (q \div 2^(n - i)) % 2]

\* 2^n modulo den, by squaring
RECURSIVE Pow2Mod(_, _)
Pow2Mod(n, den) ==
    IF n = 0 THEN 1 % den
    ELSE LET h == Pow2Mod(n \div 2, den)
         IN  (h * h * (IF n % 2 = 1 THEN 2 ELSE 1)) % den

\* what is left of r/den after n binary digits: r * 2^n modulo den
FracRem(r, den, n) == (r * Pow2Mod(n, den)) % den

\* the first n binary digits of the fraction r/den
FracBits(r, den, n) == [i \in 1..n |-> (2 * FracRem(r, den, i - 1)) \div den]

StripZeros(b) ==
    IF \E i \in 1..Len(b) : b[i] = 1
    THEN SubSeq(b, CHOOSE i \in 1..Len(b) :
                       b[i] = 1 /\ \A j \in 1..(i - 1) : b[j] = 0, Len(b))
    ELSE <<>>

\* b + 1 on a bit sequence that is not all ones
BitInc(b) ==
    LET p == CHOOSE i \in 1..Len(b) :
                 b[i] = 0 /\ \A j \in (i + 1)..Len(b) : b[j] = 1
    IN  [i \in 1..Len(b) |-> IF i < p THEN b[i] ELSE IF i = p THEN 1 ELSE 0]

\* a - b on bit sequences of one length, a >= b: position i borrows when the
\* digits below it hold a smaller number in a than in b
BitSub(a, b) ==
    LET n == Len(a)
        borrow(i) == \E k \in (i + 1)..n :
                         a[k] < b[k] /\ \A j \in (i + 1)..(k - 1) : a[j] = b[j]
    IN  [i \in 1..n |-> (a[i] - b[i] - (IF borrow(i) THEN 1 ELSE 0)) % 2]

\* lexicographic a > b on bit sequences of one length
BitsGt(a, b) ==
    \E i \in 1..Len(a) : a[i] > b[i] /\ \A j \in 1..(i - 1) : a[j] = b[j]

\* round to nearest, ties to even: the double nearest to bits * 2^e (+ a
\* non-zero remainder below the last bit when sticky)
RoundToDouble(bits, e, sticky) ==
    LET b == StripZeros(bits)
        n == Len(b)
    IN  IF n = 0 THEN FloatZero
        ELSE IF n <= DoublePrecision
        THEN [m |-> b \o Zeros(DoublePrecision - n),
              e |-> e - (DoublePrecision - n)]
        ELSE LET keep == SubSeq(b, 1, DoublePrecision)
                 guard == b[DoublePrecision + 1]
                 rest == sticky \/ \E i \in (DoublePrecision + 2)..n : b[i] = 1
                 up == guard = 1 /\ (rest \/ keep[DoublePrecision] = 1)
                 e2 == e + (n - DoublePrecision)
             IN  IF ~up THEN [m |-> keep, e |-> e2]
                 ELSE IF \A i \in 1..DoublePrecision : keep[i] = 1
                 THEN [m |-> <<1>> \o Zeros(DoublePrecision - 1), e |-> e2 + 1]
                 ELSE [m |-> BitInc(keep), e |-> e2]

\* float("<k/1000>"): the double json.loads yields for a decimal literal
\* with three decimals, k >= 0 the literal in thousandths
float_of_milli(k) ==
    LET n == DoublePrecision + 12
    IN  RoundToDouble(IntBits(k \div 1000) \o FracBits(k % 1000, 1000, n),
                      -n, FracRem(k % 1000, 1000, n) # 0)

\* x > y on non-negative doubles
float_gt(x, y) ==
    IF x.m = <<>> THEN FALSE
    ELSE IF y.m = <<>> THEN TRUE
    ELSE x.e > y.e \/ (x.e = y.e /\ BitsGt(x.m, y.m))

\* abs(x - y) on non-negative doubles: the exact difference, rounded
float_abs_sub(x, y) ==
    LET big == IF float_gt(y, x) THEN y ELSE x
        small == IF float_gt(y, x) THEN x ELSE y
    IN  IF small.m = <<>> THEN big
        ELSE LET e == IF big.e < small.e THEN big.e ELSE small.e
                 a == big.m \o Zeros(big.e - e)
                 b0 == small.m \o Zeros(small.e - e)
                 b == Zeros(Len(a) - Len(b0)) \o b0
             IN  RoundToDouble(BitSub(a, b), e, FALSE)

(***************************************************************************)
(* Python values held by the fields of the document set                    *)
(***************************************************************************)
Str(s) == [ty |-> "str", v |-> s]
NoneValue == [ty |-> "NoneType", v |-> <<>>]
IntValue(digits) == [ty |-> "int", v |-> digits]
Float(k) == [ty |-> "float", milli |-> k]
NoneNumber == [ty |-> "NoneType", milli |-> 0]

IsStr(x) == x.ty = "str"

\* not x
Falsy(x) ==
    \/ x.ty = "NoneType"
    \/ x.ty = "str" /\ x.v = <<>>
    \/ x.ty = "int" /\ x.v = <<"0">>

\* x == "<literal>"
EqLit(x, literal) == x.ty = "str" /\ x.v = literal

\* x == 0 on a numeric field
IsZero(x) == x.ty = "float" /\ x.milli = 0

NO_ENCONTRADO == <<"N","O","_","E","N","C","O","N","T","R","A","D","O">>
NO_LEGIBLE == <<"N","O","_","L","E","G","I","B","L","E">>

(***************************************************************************)
(* Findings and exceptions.  A block of code yields [raised, errors]:      *)
(* raised when an exception leaves it, else the findings it produced.      *)
(* Rule names and messages are written without accents, the messages     *)
(* without the values the code interpolates into them.                     *)
(***************************************************************************)
valid_rules == {"R1", "R2", "R3", "R4", "R5"}
valid_severities == {"error", "warning"}

ValidationError(rule_id, rule_name, message, severity) ==
    [rule_id |-> rule_id, rule_name |-> rule_name,
     message |-> message, severity |-> severity]

Returns(errors) == [raised |-> FALSE, errors |-> errors]
Raises == [raised |-> TRUE, errors |-> <<>>]

\* a try block without its except handler: the exception leaves it
TryExcept_Propagates(body, fallback) == body

\* try: body / except Exception: the handler's fallback finding
TryExcept(body, fallback) ==
    IF body.raised THEN Returns(<<fallback>>) ELSE body

\* two blocks of which the second is skipped once the first has a finding
Sequentially_StopsAtFinding(first, second) ==
    IF first.raised THEN Raises
    ELSE IF first.errors # <<>> THEN first
    ELSE second

\* two blocks one after the other: an exception of the first skips the second
Sequentially(first, second) ==
    IF first.raised THEN Raises
    ELSE IF second.raised THEN Raises
    ELSE Returns(first.errors \o second.errors)

(***************************************************************************)
(* Calendar: datetime.strptime(s, "%Y-%m-%d"), strftime and the age in     *)
(* days.  A datetime is [ordinal, second]: the proleptic Gregorian day     *)
(* number (date.toordinal) and the second of that day.                     *)
(***************************************************************************)
DigitChars == <<"0","1","2","3","4","5","6","7","8","9">>

IsDigit(c) == c \in Digits

DigitVal(c) == (CHOOSE i \in DOMAIN DigitChars : DigitChars[i] = c) - 1

IsLeap(y) == y % 4 = 0 /\ (y % 100 # 0 \/ y % 400 = 0)

DaysInMonth(y, m) ==
    IF m = 2 THEN (IF IsLeap(y) THEN 29 ELSE 28)
    ELSE IF m \in {4, 6, 9, 11} THEN 30 ELSE 31

DaysBeforeYear(y) ==
    365 * (y - 1) + ((y - 1) \div 4) - ((y - 1) \div 100) + ((y - 1) \div 400)

RECURSIVE DaysBeforeMonth(_, _)
DaysBeforeMonth(y, m) ==
    IF m = 1 THEN 0 ELSE DaysBeforeMonth(y, m - 1) + DaysInMonth(y, m - 1)

Ordinal(y, m, d) == DaysBeforeYear(y) + DaysBeforeMonth(y, m) + d

\* the month field of the format: 1[0-2] | 0[1-9] | [1-9]
IsMonthField(f) ==
    \/ Len(f) = 2 /\ f[1] = "1" /\ f[2] \in {"0", "1", "2"}
    \/ Len(f) = 2 /\ f[1] = "0" /\ IsDigit(f[2]) /\ f[2] # "0"
    \/ Len(f) = 1 /\ IsDigit(f[1]) /\ f[1] # "0"

\* the day field of the format: 3[01] | [12]\d | 0[1-9] | [1-9] | " "[1-9]
IsDayField(f) ==
    \/ Len(f) = 2 /\ f[1] = "3" /\ f[2] \in {"0", "1"}
    \/ Len(f) = 2 /\ f[1] \in {"1", "2"} /\ IsDigit(f[2])
    \/ Len(f) = 2 /\ f[1] \in {"0", " "} /\ IsDigit(f[2]) /\ f[2] # "0"
    \/ Len(f) = 1 /\ IsDigit(f[1]) /\ f[1] # "0"

FieldVal(f) ==
    IF Len(f) = 1 THEN DigitVal(f[1])
    ELSE (IF f[1] = " " THEN 0 ELSE 10 * DigitVal(f[1])) + DigitVal(f[2])

\* strptime(s, "%Y-%m-%d") on a str: ok is FALSE where it raises ValueError
\* (the text does not match the format, or names no day of the calendar)
strptime(s) ==
    LET shaped(lm, ld) ==
            /\ Len(s) = 6 + lm + ld
            /\ \A i \in 1..4 : IsDigit(s[i])
            /\ s[5] = "-"
            /\ IsMonthField(SubSeq(s, 6, 5 + lm))
            /\ s[6 + lm] = "-"
            /\ IsDayField(SubSeq(s, 7 + lm, 6 + lm + ld))
        fits == \E lm \in {1, 2} : \E ld \in {1, 2} : shaped(lm, ld)
        lens == CHOOSE q \in {1, 2} \X {1, 2} : shaped(q[1], q[2])
        y == 1000 * DigitVal(s[1]) + 100 * DigitVal(s[2])
                 + 10 * DigitVal(s[3]) + DigitVal(s[4])
        m == FieldVal(SubSeq(s, 6, 5 + lens[1]))
        d == FieldVal(SubSeq(s, 7 + lens[1], 6 + lens[1] + lens[2]))
    IN  IF ~fits THEN [ok |-> FALSE, ordinal |-> 0]
        ELSE IF y < 1 \/ d > DaysInMonth(y, m) THEN [ok |-> FALSE, ordinal |-> 0]
        ELSE [ok |-> TRUE, ordinal |-> Ordinal(y, m, d)]

TwoDigits(n) == <<DigitChars[(n \div 10) + 1], DigitChars[(n % 10) + 1]>>

\* date.fromordinal(n).strftime("%Y-%m-%d")
strftime(n) ==
    LET y0 == (n \div 366) + 1
        y == CHOOSE c \in y0..(y0 + 8) :
                 DaysBeforeYear(c) < n /\ n <= DaysBeforeYear(c + 1)
        r == n - DaysBeforeYear(y)
        m == CHOOSE c \in 1..12 :
                 DaysBeforeMonth(y, c) < r
                     /\ r <= DaysBeforeMonth(y, c) + DaysInMonth(y, c)
        d == r - DaysBeforeMonth(y, m)
    IN  TwoDigits(y \div 100) \o TwoDigits(y % 100) \o <<"-">>
            \o TwoDigits(m) \o <<"-">> \o TwoDigits(d)

\* (later - midnight of the day `ordinal`).days: timedelta keeps
\* 0 <= seconds < 86400, so days is the floor of the difference
timedelta_days(later, ordinal) ==
    ((later.ordinal - ordinal) * 86400 + later.second) \div 86400

(***************************************************************************)
(* R1: validity window of the DODA                                         *)
(***************************************************************************)
DODA_MAX_AGE_DAYS == 3

\* the stale-document test with >= for >: a document of exactly the maximum age fails
ExceedsMaxAge_Inclusive(edad_dias) == edad_dias >= DODA_MAX_AGE_DAYS

\* edad_dias > DODA_MAX_AGE_DAYS
ExceedsMaxAge(edad_dias) == edad_dias > DODA_MAX_AGE_DAYS

R1Error(message) == ValidationError("R1", "Vigencia del DODA", message, "error")

\* the try block of validate_r1_doda_vigencia
r1_body(data, now) ==
    LET fecha_emision_str == data.doda.fecha_emision
        fecha_emision == strptime(fecha_emision_str.v)
        edad_dias == timedelta_days(now, fecha_emision.ordinal)
    IN  IF EqLit(fecha_emision_str, NO_ENCONTRADO) \/ Falsy(fecha_emision_str)
        THEN Returns(<<R1Error("No se pudo extraer la fecha de emision del DODA")>>)
        ELSE IF ~IsStr(fecha_emision_str)
        THEN Raises      \* strptime: TypeError, not the ValueError caught inside
        ELSE IF ~fecha_emision.ok
        THEN Returns(<<R1Error("Formato de fecha invalido en DODA")>>)
        ELSE IF ExceedsMaxAge(edad_dias)
        THEN Returns(<<R1Error("El DODA tiene dias de antiguedad sobre el maximo permitido")>>)
        ELSE IF edad_dias < 0
        THEN Returns(<<R1Error("La fecha de emision del DODA es futura")>>)
        ELSE Returns(<<>>)

validate_r1_doda_vigencia(data, now) ==
    TryExcept(r1_body(data, now), R1Error("Error al validar vigencia del DODA"))

(***************************************************************************)
(* R2: plates of the manifest against the plates read from the photos      *)
(***************************************************************************)
R2Error(unit, message) ==
    ValidationError("R2", "Coincidencia de Placas - " \o unit, message, "error")

\* f"{confidence:.0%}" with confidence = plate.confidence or 0.0: the format
\* raises ValueError for a value that is no number
FormatRaises(confidence) == confidence.ty = "str"

\* one try block of validate_r2_placas; unit is "Tracto" or "Remolque"
r2_plate_body(placa_manifest, plate, unit) ==
    LET placa_foto == plate.plate_number
    IN  IF EqLit(placa_manifest, NO_ENCONTRADO) \/ Falsy(placa_manifest)
        THEN Returns(<<R2Error(unit, "No se pudo extraer la placa del Manifiesto")>>)
        ELSE IF EqLit(placa_foto, NO_LEGIBLE) \/ Falsy(placa_foto)
        THEN Returns(<<R2Error(unit, "No se pudo leer la placa en la foto")>>)
        ELSE IF ~IsStr(placa_manifest) \/ ~IsStr(placa_foto)
        THEN Raises      \* normalize_string: TypeError
        ELSE IF ~strings_match(placa_manifest.v, placa_foto.v, DEFAULT_THRESHOLD)
        THEN (IF FormatRaises(plate.confidence) THEN Raises
              ELSE Returns(<<R2Error(unit, "La placa no coincide")>>))
        ELSE Returns(<<>>)

\* the try block with its except handler
r2_plate_check(placa_manifest, plate, unit) ==
    TryExcept(r2_plate_body(placa_manifest, plate, unit),
              R2Error(unit, "Error al validar placa"))

\* both manifest plates compared with the tractor photo
validate_r2_placas_TractorPhotoTwice(data) ==
    Sequentially(
        r2_plate_check(data.manifest.placa_tracto, data.tractor_plate, "Tracto"),
        r2_plate_check(data.manifest.placa_remolque, data.tractor_plate, "Remolque"))

validate_r2_placas(data) ==
    Sequentially(
        r2_plate_check(data.manifest.placa_tracto, data.tractor_plate, "Tracto"),
        r2_plate_check(data.manifest.placa_remolque, data.trailer_plate, "Remolque"))

(***************************************************************************)
(* R3: manifest against prefile, five sub-checks                           *)
(***************************************************************************)
\* every finding of R3 a warning
R3Error_AllWarnings(unit, message, severity) ==
    ValidationError("R3", "Cruce Manifest/Prefile - " \o unit, message, "warning")

R3Error(unit, message, severity) ==
    ValidationError("R3", "Cruce Manifest/Prefile - " \o unit, message, severity)

\* R3.1, the try block
r3_entry_body(manifest, prefile) ==
    IF EqLit(manifest.numero_entry, NO_ENCONTRADO)
           \/ EqLit(prefile.numero_entry, NO_ENCONTRADO)
    THEN Returns(<<R3Error("Numero Entry",
             "No se pudo extraer el numero de entry de uno o ambos documentos",
             "error")>>)
    ELSE IF ~IsStr(manifest.numero_entry) \/ ~IsStr(prefile.numero_entry)
    THEN Raises
    ELSE IF ~strings_match(manifest.numero_entry.v, prefile.numero_entry.v,
                           DEFAULT_THRESHOLD)
    THEN Returns(<<R3Error("Numero Entry", "El numero de entry no coincide",
                           "error")>>)
    ELSE Returns(<<>>)

r3_entry_check(manifest, prefile) ==
    TryExcept(r3_entry_body(manifest, prefile),
              R3Error("Numero Entry", "Error al validar numero de entry", "error"))

\* extract_broker_from_entry on an entry it does not raise for
\* the code read from the first three characters
extract_broker_from_entry_LeadingDigits(entry) ==
    IF EqLit(entry, NO_ENCONTRADO) \/ Falsy(entry) THEN NO_ENCONTRADO
    ELSE IF Len(entry.v) >= 3 /\ \A i \in 1..3 : IsDigit(entry.v[i])
    THEN SubSeq(entry.v, 1, 3) ELSE NO_ENCONTRADO

extract_broker_from_entry(entry) ==
    IF EqLit(entry, NO_ENCONTRADO) \/ Falsy(entry) THEN NO_ENCONTRADO
    ELSE LET digits == SelectSeq(entry.v, IsDigit)
         IN  IF Len(digits) >= 3 THEN SubSeq(digits, 1, 3) ELSE NO_ENCONTRADO

\* iterating a truthy value that is no str raises TypeError
BrokerRaises(entry) == ~Falsy(entry) /\ ~IsStr(entry)

\* R3.2, the try block
r3_broker_body(manifest, prefile) ==
    LET broker_manifest == extract_broker_from_entry(manifest.numero_entry)
        broker_prefile == extract_broker_from_entry(prefile.numero_entry)
    IN  IF BrokerRaises(manifest.numero_entry) \/ BrokerRaises(prefile.numero_entry)
        THEN Raises
        ELSE IF broker_manifest = NO_ENCONTRADO \/ broker_prefile = NO_ENCONTRADO
        THEN Returns(<<R3Error("Broker",
                 "No se pudo extraer el codigo de broker de uno o ambos documentos",
                 "error")>>)
        ELSE IF broker_manifest # broker_prefile
        THEN Returns(<<R3Error("Broker", "El codigo de broker no coincide",
                               "error")>>)
        ELSE Returns(<<>>)

\* the broker codes compared only when the entry numbers match
r3_broker_check_OnMatchingEntries(manifest, prefile) ==
    IF r3_entry_check(manifest, prefile).errors # <<>> THEN Returns(<<>>)
    ELSE TryExcept(r3_broker_body(manifest, prefile),
                   R3Error("Broker", "Error al validar broker", "error"))

r3_broker_check(manifest, prefile) ==
    TryExcept(r3_broker_body(manifest, prefile),
              R3Error("Broker", "Error al validar broker", "error"))

\* R3.3, the try block
r3_description_body(manifest, prefile) ==
    IF EqLit(manifest.descripcion_mercancia, NO_ENCONTRADO)
           \/ EqLit(prefile.descripcion_mercancia, NO_ENCONTRADO)
    THEN Returns(<<R3Error("Descripcion",
             "No se pudo extraer la descripcion de uno o ambos documentos",
             "error")>>)
    ELSE IF ~IsStr(manifest.descripcion_mercancia)
                \/ ~IsStr(prefile.descripcion_mercancia)
    THEN Raises
    ELSE IF ~strings_match(manifest.descripcion_mercancia.v,
                           prefile.descripcion_mercancia.v, RELAXED_THRESHOLD)
    THEN Returns(<<R3Error("Descripcion",
             "La descripcion de mercancia no coincide", "warning")>>)
    ELSE Returns(<<>>)

r3_description_check(manifest, prefile) ==
    TryExcept(r3_description_body(manifest, prefile),
              R3Error("Descripcion", "Error al validar descripcion de mercancia",
                      "error"))

\* abs(a - b) > 0.01 on two floats
ExceedsTolerance(a, b) ==
    float_gt(float_abs_sub(float_of_milli(a.milli), float_of_milli(b.milli)),
             float_of_milli(10))

\* R3.4 and R3.5, the try block: the same code on cantidad and on peso_monto
r3_number_body(a, b, unit) ==
    IF IsZero(a) \/ IsZero(b)
    THEN Returns(<<R3Error(unit, "No se pudo extraer de uno o ambos documentos",
                           "error")>>)
    ELSE IF a.ty # "float" \/ b.ty # "float"
    THEN Raises      \* a - b: TypeError
    ELSE IF ExceedsTolerance(a, b)
    THEN Returns(<<R3Error(unit, "No coincide", "error")>>)
    ELSE Returns(<<>>)

r3_number_check(a, b, unit) ==
    TryExcept(r3_number_body(a, b, unit), R3Error(unit, "Error al validar", "error"))

validate_r3_cruce_manifest_prefile(data) ==
    LET manifest == data.manifest
        prefile == data.prefile
    IN  Sequentially(r3_entry_check(manifest, prefile),
        Sequentially(r3_broker_check(manifest, prefile),
        Sequentially(r3_description_check(manifest, prefile),
        Sequentially(r3_number_check(manifest.cantidad, prefile.cantidad, "Cantidad"),
                     r3_number_check(manifest.peso_monto, prefile.peso_monto,
                                     "Peso/Monto")))))

(***************************************************************************)
(* R4: customs office, R5: operator name                                   *)
(***************************************************************************)
R4Error(message) == ValidationError("R4", "Coincidencia de Aduana", message, "error")

\* the try block of validate_r4_aduana
r4_body(data) ==
    LET seccion_aduanera == data.doda.seccion_aduanera
        aduana_arribo == data.manifest.aduana_arribo
    IN  IF EqLit(seccion_aduanera, NO_ENCONTRADO) \/ Falsy(seccion_aduanera)
        THEN Returns(<<R4Error("No se pudo extraer la seccion aduanera del DODA")>>)
        ELSE IF EqLit(aduana_arribo, NO_ENCONTRADO) \/ Falsy(aduana_arribo)
        THEN Returns(<<R4Error("No se pudo extraer la aduana de arribo del Manifiesto")>>)
        ELSE IF ~IsStr(seccion_aduanera) \/ ~IsStr(aduana_arribo)
        THEN Raises
        ELSE IF ~strings_match(seccion_aduanera.v, aduana_arribo.v, DEFAULT_THRESHOLD)
        THEN Returns(<<R4Error("La aduana no coincide")>>)
        ELSE Returns(<<>>)

validate_r4_aduana(data) ==
    TryExcept(r4_body(data), R4Error("Error al validar coincidencia de aduana"))

R5Error(message) == ValidationError("R5", "Coincidencia de Operador", message, "error")

\* not s.strip(): nothing but whitespace
IsBlank(s) == \A i \in 1..Len(s) : IsSpace(s[i])

\* the try block of validate_r5_operador
r5_body(data, name) ==
    LET nombre_manifest == data.manifest.nombre_operador
        nombre_usuario == name
    IN  IF EqLit(nombre_manifest, NO_ENCONTRADO) \/ Falsy(nombre_manifest)
        THEN Returns(<<R5Error("No se pudo extraer el nombre del operador del Manifiesto")>>)
        ELSE IF Falsy(nombre_usuario)
        THEN Returns(<<R5Error("No se ingreso el nombre del operador en el formulario")>>)
        ELSE IF ~IsStr(nombre_usuario)
        THEN Raises      \* nombre_usuario.strip(): AttributeError
        ELSE IF IsBlank(nombre_usuario.v)
        THEN Returns(<<R5Error("No se ingreso el nombre del operador en el formulario")>>)
        ELSE IF ~IsStr(nombre_manifest)
        THEN Raises
        ELSE IF ~strings_match(nombre_manifest.v, nombre_usuario.v, RELAXED_THRESHOLD)
        THEN Returns(<<R5Error("El nombre del operador no coincide")>>)
        ELSE Returns(<<>>)

validate_r5_operador(data, name) ==
    TryExcept(r5_body(data, name), R5Error("Error al validar coincidencia de operador"))

(***************************************************************************)
(* The test suite's data (test_validator.py)                               *)
(***************************************************************************)
PLATE_ABC == <<"A","B","C","-","1","2","3">>
PLATE_XYZ == <<"X","Y","Z","-","7","8","9">>
PLATE_WRONG == <<"W","R","O","N","G","-","1","2","3">>
TIJUANA == <<"T","i","j","u","a","n","a">>
MEXICALI == <<"M","e","x","i","c","a","l","i">>
JUAN_PEREZ_GARCIA == <<"J","u","a","n"," ","P","e_acute","r","e","z"," ","G","a","r","c","i_acute","a">>
MARIA_GONZALEZ_LOPEZ == <<"M","a","r","i_acute","a"," ","G","o","n","z","a_acute","l","e","z"," ","L","o_acute","p","e","z">>
ENTRY_VALID == <<"E","N","T","-","2","0","2","5","-","0","0","1","2","3","4">>
ENTRY_DIFFERENT == <<"D","I","F","F","E","R","E","N","T","-","E","N","T","R","Y">>
BROKERS_UNIDOS == <<"B","r","o","k","e","r","s"," ","U","n","i","d","o","s"," ","S",".","A",".">>
PRODUCTOS == <<"P","r","o","d","u","c","t","o","s"," ","e","l","e","c","t","r","o_acute","n","i","c","o","s">>

\* create_valid_data(), built at the instant `now`
create_valid_data(now) ==
    [doda |-> [fecha_emision |-> Str(strftime(now.ordinal - 1)),
               seccion_aduanera |-> Str(TIJUANA)],
     manifest |-> [placa_tracto |-> Str(PLATE_ABC),
                   placa_remolque |-> Str(PLATE_XYZ),
                   nombre_operador |-> Str(JUAN_PEREZ_GARCIA),
                   aduana_arribo |-> Str(TIJUANA),
                   numero_entry |-> Str(ENTRY_VALID),
                   broker |-> Str(BROKERS_UNIDOS),
                   descripcion_mercancia |-> Str(PRODUCTOS),
                   cantidad |-> Float(100000),
                   peso_monto |-> Float(5000500)],
     prefile |-> [numero_entry |-> Str(ENTRY_VALID),
                  broker |-> Str(BROKERS_UNIDOS),
                  descripcion_mercancia |-> Str(PRODUCTOS),
                  cantidad |-> Float(100000),
                  peso_monto |-> Float(5000500)],
     tractor_plate |-> [plate_number |-> Str(PLATE_ABC), confidence |-> Float(950)],
     trailer_plate |-> [plate_number |-> Str(PLATE_XYZ), confidence |-> Float(930)]]

valid_driver_name == Str(JUAN_PEREZ_GARCIA)

(***************************************************************************)
(* validate_all_rules, one step per rule call                              *)
(***************************************************************************)
NoCall == [fn |-> "none"]

\* a rule returned: its findings join all_errors; an exception that leaves
\* the rule leaves validate_all_rules too
RuleStep(result, next) ==
    IF result.raised
    THEN pc' = "raised" /\ all_errors' = all_errors
    ELSE pc' = next /\ all_errors' = all_errors \o result.errors

CallR1 ==
    /\ pc = "r1"
    /\ RuleStep(validate_r1_doda_vigencia(extracted_data, hoy), "r2")
    /\ UNCHANGED <<call, extracted_data, driver_name, hoy>>

CallR2 ==
    /\ pc = "r2"
    /\ RuleStep(validate_r2_placas(extracted_data), "r3")
    /\ UNCHANGED <<call, extracted_data, driver_name, hoy>>

CallR3 ==
    /\ pc = "r3"
    /\ RuleStep(validate_r3_cruce_manifest_prefile(extracted_data), "r4")
    /\ UNCHANGED <<call, extracted_data, driver_name, hoy>>

CallR4 ==
    /\ pc = "r4"
    /\ RuleStep(validate_r4_aduana(extracted_data), "r5")
    /\ UNCHANGED <<call, extracted_data, driver_name, hoy>>

CallR5 ==
    /\ pc = "r5"
    /\ RuleStep(validate_r5_operador(extracted_data, driver_name), "summary")
    /\ UNCHANGED <<call, extracted_data, driver_name, hoy>>

\* the summary is logged and all_errors returned
Return ==
    /\ pc = "summary"
    /\ pc' = "returned"
    /\ UNCHANGED <<call, extracted_data, driver_name, hoy, all_errors>>

Next == CallR1 \/ CallR2 \/ CallR3 \/ CallR4 \/ CallR5 \/ Return

\* the instants at which the model runs a validation: 2025-03-02 (the days
\* before it cross the end of February) at midnight, at noon and in the
\* last second of the day
Instants ==
    {[ordinal |-> Ordinal(2025, 3, 2), second |-> sec] : sec \in {0, 43200, 86399}}

\* validate_all_rules is entered with the document set and the user's data
Entered(data, name, now) ==
    /\ extracted_data = data
    /\ driver_name = name
    /\ hoy = now
    /\ pc = "r1"
    /\ all_errors = <<>>
    /\ call = NoCall

(***************************************************************************)
(* SpecMatch: strings_match called on every pair of the strings below      *)
(***************************************************************************)
MaxWords == 3

Vocabulary == {<<"j","u","a","n">>, <<"p","e","r","e","z">>, <<"g","a","r","c","i","a">>}

\* the phrases of one to n words of the vocabulary
RECURSIVE Phrases(_)
Phrases(n) ==
    IF n = 0 THEN {}
    ELSE Vocabulary \cup {p \o <<" ">> \o w : p \in Phrases(n - 1), w \in Vocabulary}

Sentinels == {NO_ENCONTRADO, NO_LEGIBLE}

MatchStrings ==
    Phrases(MaxWords) \cup Sentinels \cup
    {<<>>, <<" ">>, <<" ","\t">>,
     <<"n","o","_","e","n","c","o","n","t","r","a","d","o">>, <<"N","o","_","L","e","g","i","b","l","e">>, <<"N","O","_","E","N","C","O","N","T","R","A","D","O"," ","X">>, <<"p","l","a","c","a"," ","N","O","_","L","E","G","I","B","L","E">>,
     <<"N","O"," ","E","N","C","O","N","T","R","A","D","O">>,
     JUAN_PEREZ_GARCIA, <<"J","U","A","N"," "," ","P","E","R","E","Z">>, <<" ","G","a","r","c","i","a"," ","J","u","a","n"," ">>,
     <<"j","u","a","n"," ","p","e","r","e","z"," ","l","o","p","e","z">>, <<"p","e","r","e","z"," ","j","u","a","n"," ","l","o","p","e","z"," ","g","a","r","c","i","a">>,
     PLATE_ABC, <<"a","b","c","-","1","2","3">>}

Thresholds == {DEFAULT_THRESHOLD, RELAXED_THRESHOLD}

InitMatch ==
    /\ call \in [fn : {"strings_match"}, str1 : MatchStrings, str2 : MatchStrings,
                 threshold : Thresholds, done : {FALSE}, ret : {FALSE}]
    /\ extracted_data = NoneValue      \* no validation request is in progress
    /\ driver_name = NoneValue
    /\ hoy = CHOOSE now \in Instants : now.second = 0
    /\ pc = "idle"
    /\ all_errors = <<>>

CallStringsMatch ==
    /\ call.fn = "strings_match"
    /\ ~call.done
    /\ call' = [call EXCEPT !.done = TRUE,
                            !.ret = strings_match(call.str1, call.str2, call.threshold)]
    /\ UNCHANGED <<extracted_data, driver_name, hoy, pc, all_errors>>

NextMatch == CallStringsMatch

SpecMatch == InitMatch /\ [][NextMatch]_vars

\* C2: strings_match(a, b, t) is false whenever a or b is empty after
\* normalization, so a blank string never matches a non-blank one, whatever
\* the threshold.
C2_BlankNeverMatches ==
    (call.fn = "strings_match" /\ call.done
        /\ (normalize_string(call.str1) = <<>> \/ normalize_string(call.str2) = <<>>))
    => call.ret = FALSE

\* C3: a sentinel never matches a string that is no sentinel, in either
\* argument order and whatever the threshold.
C3_SentinelNeverMatches ==
    (call.fn = "strings_match" /\ call.done
        /\ ((call.str1 \in Sentinels) # (call.str2 \in Sentinels)))
    => call.ret = FALSE

(***************************************************************************)
(* SpecR1: validate_all_rules on the valid data with every emission date   *)
(* below, at every instant                                                 *)
(***************************************************************************)
MaxDaysBack == 5
MaxDaysAhead == 2

FechaValues(now) ==
    {Str(strftime(now.ordinal - k)) : k \in (-MaxDaysAhead)..MaxDaysBack}
    \cup {Str(NO_ENCONTRADO), Str(NO_LEGIBLE), Str(<<>>), NoneValue,
          IntValue(<<"2","0","2","5","0","3","0","1">>),
          Str(<<"2","0","2","5","-","3","-","1">>), Str(<<"2","0","2","5","-","0","2","-"," ","9">>), Str(<<"0","1","/","0","3","/","2","0","2","5">>),
          Str(<<"2","0","2","5","-","0","2","-","2","9">>), Str(<<"2","0","2","5","-","1","3","-","0","1">>), Str(<<"2","0","2","5","-","0","3","-","0","1"," ">>),
          Str(<<"2","0","2","4","-","0","3","-","0","2">>)}

InitR1 ==
    \E now \in Instants : \E f \in FechaValues(now) :
        Entered([create_valid_data(now) EXCEPT !.doda.fecha_emision = f],
                valid_driver_name, now)

SpecR1 == InitR1 /\ [][Next]_vars

\* what the claims call the age of the emission date, for a state of a run
FechaParses ==
    IsStr(extracted_data.doda.fecha_emision)
        /\ strptime(extracted_data.doda.fecha_emision.v).ok

AgeDays == timedelta_days(hoy, strptime(extracted_data.doda.fecha_emision.v).ordinal)

\* the findings of all_errors that carry rule id r
FindingsOf(r) == SelectSeq(all_errors, LAMBDA e : e.rule_id = r)

\* C4: R1 emits exactly one error finding when the date is missing, does not
\* parse, is older than 3 days or lies in the future, and no finding exactly
\* when it parses and 0 <= age <= 3 (age 3 passes, age 4 and age -1 fail).
C4_R1Window ==
    pc = "r2" =>
        IF FechaParses /\ 0 <= AgeDays /\ AgeDays <= 3
        THEN all_errors = <<>>
        ELSE /\ Len(all_errors) = 1
             /\ all_errors[1].rule_id = "R1"
             /\ all_errors[1].severity = "error"

\* R1 has run on a date exactly 3 days old and found nothing
C4_Witness ==
    pc = "r2" /\ FechaParses /\ AgeDays = 3 /\ all_errors = <<>>

\* the findings of all_errors that carry rule name n (one unit of a rule)
UnitFindings(n) == SelectSeq(all_errors, LAMBDA e : e.rule_name = n)

\* the matcher as its contract states it: strings_match, and a side that is
\* blank after normalization matches nothing
FuzzyMatches(a, b, threshold) ==
    /\ normalize_string(a) # <<>>
    /\ normalize_string(b) # <<>>
    /\ strings_match(a, b, threshold)

(***************************************************************************)
(* SpecR2: validate_all_rules on the valid data with the plates below in   *)
(* the manifest and in the photo readings                                  *)
(***************************************************************************)
PlateValues ==
    {Str(PLATE_ABC), Str(PLATE_XYZ), Str(PLATE_WRONG),
     Str(<<"a","b","c","-","1","2","3">>), Str(<<"A","B","C"," ","1","2","3">>),
     Str(NO_ENCONTRADO), Str(NO_LEGIBLE),
     Str(<<"n","o","_","e","n","c","o","n","t","r","a","d","o">>), Str(<<"n","o","_","l","e","g","i","b","l","e">>),
     Str(<<>>), Str(<<" ">>)}

FewPlateValues == {Str(PLATE_XYZ), Str(PLATE_WRONG), Str(NO_LEGIBLE), Str(<<>>)}

WithPlates(data, mt, pt, mr, pr) ==
    [data EXCEPT !.manifest.placa_tracto = mt, !.tractor_plate.plate_number = pt,
                 !.manifest.placa_remolque = mr, !.trailer_plate.plate_number = pr]

\* every tractor pair with a few trailer pairs, and the other way round
R2Documents(now) ==
    {WithPlates(create_valid_data(now), mt, pt, mr, pr) :
        mt \in PlateValues, pt \in PlateValues,
        mr \in FewPlateValues \cup {Str(NO_ENCONTRADO)}, pr \in FewPlateValues}
    \cup
    {WithPlates(create_valid_data(now), mt, pt, mr, pr) :
        mt \in FewPlateValues \cup {Str(NO_ENCONTRADO)}, pt \in FewPlateValues,
        mr \in PlateValues, pr \in PlateValues}

Noon == CHOOSE now \in Instants : now.second = 43200

InitR2 ==
    \E data \in R2Documents(Noon) : Entered(data, valid_driver_name, Noon)

SpecR2 == InitR2 /\ [][Next]_vars

\* C5, for one pair: an error is due iff the manifest plate is the not-found
\* sentinel, the photo plate is the not-legible sentinel or empty, or the
\* two values do not fuzzy-match at the default threshold
PlateErrorDue(placa_manifest, placa_foto) ==
    \/ EqLit(placa_manifest, NO_ENCONTRADO)
    \/ EqLit(placa_foto, NO_LEGIBLE)
    \/ placa_foto.v = <<>>
    \/ ~FuzzyMatches(placa_manifest.v, placa_foto.v, DEFAULT_THRESHOLD)

\* C5: R2 emits for each of the two pairs exactly one error when an error is
\* due for that pair and nothing otherwise, whatever the other pair holds;
\* the R2 findings are those of the tractor pair, then those of the trailer
\* pair.
C5_R2PairsIndependent ==
    pc = "r3" =>
        LET tracto == UnitFindings("Coincidencia de Placas - Tracto")
            remolque == UnitFindings("Coincidencia de Placas - Remolque")
        IN  /\ FindingsOf("R2") = tracto \o remolque
            /\ \A i \in 1..Len(FindingsOf("R2")) : FindingsOf("R2")[i].severity = "error"
            /\ Len(tracto) = IF PlateErrorDue(extracted_data.manifest.placa_tracto,
                                              extracted_data.tractor_plate.plate_number)
                             THEN 1 ELSE 0
            /\ Len(remolque) = IF PlateErrorDue(extracted_data.manifest.placa_remolque,
                                                extracted_data.trailer_plate.plate_number)
                               THEN 1 ELSE 0

(***************************************************************************)
(* SpecR3: validate_all_rules on the valid data with the entry numbers,    *)
(* descriptions, quantities and weights below in manifest and prefile      *)
(***************************************************************************)
EntryValues ==
    {Str(ENTRY_VALID), Str(ENTRY_DIFFERENT), Str(NO_ENCONTRADO), Str(NO_LEGIBLE),
     Str(<<>>), Str(<<"E","N","T","-","2","0","2","5","-","0","0","1","2","3","5">>),
     Str(<<"E","N","T","-","3","0","2","5","-","0","0","1","2","3","4">>), Str(<<"E","-","1","2">>),
     Str(<<"2","-","0","2">>)}

DescriptionValues ==
    {Str(PRODUCTOS), Str(<<"p","r","o","d","u","c","t","o","s"," "," ","e","l","e","c","t","r","o","n","i","c","o","s">>),
     Str(<<"P","r","o","d","u","c","t","o","s">>), Str(<<"P","r","o","d","u","c","t","o","s"," ","t","e","x","t","i","l","e","s">>),
     Str(NO_ENCONTRADO), Str(NO_LEGIBLE), Str(<<>>)}

\* quantities in thousandths: Float(k) is the float of the literal k/1000
MaxDeltaMilli == 11

QuantityBases == {10, 20, 100000, 5000500}

\* the pairs that differ by at most MaxDeltaMilli thousandths, and the
\* pairs with a zero
NumberPairs ==
    {<<Float(q[1]), Float(q[1] + q[2])>> :
        q \in {r \in QuantityBases \X ((-MaxDeltaMilli)..MaxDeltaMilli) :
                  r[1] + r[2] >= 0}}
    \cup {<<Float(0), Float(0)>>}
    \cup {<<Float(0), Float(a)>> : a \in QuantityBases}

FewNumberPairs ==
    {<<Float(5000500), Float(5000500)>>, <<Float(100000), Float(100020)>>,
     <<Float(0), Float(100000)>>}

WithEntries(data, em, ep) ==
    [data EXCEPT !.manifest.numero_entry = em, !.prefile.numero_entry = ep]

WithDescriptions(data, dm, dp) ==
    [data EXCEPT !.manifest.descripcion_mercancia = dm,
                 !.prefile.descripcion_mercancia = dp]

WithNumbers(data, cantidad, peso_monto) ==
    [data EXCEPT !.manifest.cantidad = cantidad[1], !.prefile.cantidad = cantidad[2],
                 !.manifest.peso_monto = peso_monto[1],
                 !.prefile.peso_monto = peso_monto[2]]

\* every pair of entry numbers with every pair of descriptions; every pair
\* of quantities with a few pairs of weights and the other way round; and a
\* few values of each of the four at once
R3Documents(now) ==
    {WithDescriptions(WithEntries(create_valid_data(now), em, ep), dm, dp) :
        em \in EntryValues, ep \in EntryValues,
        dm \in DescriptionValues, dp \in DescriptionValues}
    \cup
    {WithNumbers(create_valid_data(now), c, p) : c \in NumberPairs, p \in FewNumberPairs}
    \cup
    {WithNumbers(create_valid_data(now), c, p) : c \in FewNumberPairs, p \in NumberPairs}
    \cup
    {WithNumbers(WithDescriptions(WithEntries(create_valid_data(now),
                                              Str(ENTRY_VALID), ep), dm, Str(PRODUCTOS)),
                 c, p) :
        ep \in {Str(ENTRY_VALID), Str(ENTRY_DIFFERENT)},
        dm \in {Str(PRODUCTOS), Str(NO_ENCONTRADO),
                Str(<<"P","r","o","d","u","c","t","o","s"," ","t","e","x","t","i","l","e","s">>)},
        c \in FewNumberPairs, p \in FewNumberPairs}

InitR3 ==
    \E data \in R3Documents(Noon) : Entered(data, valid_driver_name, Noon)

SpecR3 == InitR3 /\ [][Next]_vars

\* the rule names of the five sub-checks of R3, in the order of the code
R3UnitNames ==
    <<"Cruce Manifest/Prefile - Numero Entry", "Cruce Manifest/Prefile - Broker",
      "Cruce Manifest/Prefile - Descripcion", "Cruce Manifest/Prefile - Cantidad",
      "Cruce Manifest/Prefile - Peso/Monto">>

\* the valid data with the fields that sub-check i of R3 reads taken from
\* the document under validation: what sub-check i finds on it is what it
\* finds when every other sub-check passes
R3OnlyUnit(i) ==
    LET base == create_valid_data(hoy)
        m == extracted_data.manifest
        p == extracted_data.prefile
    IN  CASE i \in {1, 2} -> WithEntries(base, m.numero_entry, p.numero_entry)
          [] i = 3 -> WithDescriptions(base, m.descripcion_mercancia,
                                       p.descripcion_mercancia)
          [] i = 4 -> WithNumbers(base, <<m.cantidad, p.cantidad>>,
                          <<base.manifest.peso_monto, base.prefile.peso_monto>>)
          [] i = 5 -> WithNumbers(base,
                          <<base.manifest.cantidad, base.prefile.cantidad>>,
                          <<m.peso_monto, p.peso_monto>>)

\* the findings of sub-check i alone
R3UnitAlone(i) ==
    SelectSeq(validate_r3_cruce_manifest_prefile(R3OnlyUnit(i)).errors,
              LAMBDA e : e.rule_name = R3UnitNames[i])

\* C6: R3 runs its five sub-checks in the order entry number, broker code,
\* description, quantity, weight/amount; each contributes at most one
\* finding (0 to 5 in all), and what a sub-check contributes is what it
\* contributes when all the other sub-checks pass.
C6_R3FiveSubChecks ==
    pc = "r4" =>
        /\ Len(FindingsOf("R3")) <= 5
        /\ \A i \in 1..5 : Len(UnitFindings(R3UnitNames[i])) <= 1
        /\ \A i \in 1..5 : UnitFindings(R3UnitNames[i]) = R3UnitAlone(i)
        /\ FindingsOf("R3") =
               UnitFindings(R3UnitNames[1]) \o UnitFindings(R3UnitNames[2])
                   \o UnitFindings(R3UnitNames[3]) \o UnitFindings(R3UnitNames[4])
                   \o UnitFindings(R3UnitNames[5])

\* R3 has run and all five sub-checks found something
C6_Witness ==
    pc = "r4" /\ Len(FindingsOf("R3")) = 5
        /\ \A i \in 1..5 : FindingsOf("R3")[i].rule_name = R3UnitNames[i]

\* an entry number that is the not-found sentinel or empty
EntryMissing(entry) == EqLit(entry, NO_ENCONTRADO) \/ entry.v = <<>>

\* C7: the entry-number sub-check of R3 emits the error "missing from one or
\* both documents" when either entry number is the not-found sentinel or
\* empty; when both are present it emits an error iff they do not
\* fuzzy-match at the default threshold.
C7_R3EntryNumber ==
    pc = "r4" =>
        LET m == extracted_data.manifest.numero_entry
            p == extracted_data.prefile.numero_entry
            found == UnitFindings(R3UnitNames[1])
        IN  IF EntryMissing(m) \/ EntryMissing(p)
            THEN /\ Len(found) = 1
                 /\ found[1].severity = "error"
                 /\ found[1].message
                        = "No se pudo extraer el numero de entry de uno o ambos documentos"
            ELSE IF strings_match(m.v, p.v, DEFAULT_THRESHOLD)
            THEN found = <<>>
            ELSE Len(found) = 1 /\ found[1].severity = "error"

\* C9, for one pair of numbers in thousandths: an error is due iff either
\* is 0 or they differ by more than 0.01
NumberErrorDue(a, b) ==
    \/ a.milli = 0
    \/ b.milli = 0
    \/ a.milli - b.milli > 10
    \/ b.milli - a.milli > 10

\* C9: the quantity sub-check and the weight/amount sub-check of R3 each
\* emit one error iff either side is 0 or the two values differ by more than
\* 0.01: a difference of exactly 0.01 passes, one of 0.011 fails.
C9_R3Tolerance ==
    pc = "r4" =>
        /\ Len(UnitFindings(R3UnitNames[4]))
               = IF NumberErrorDue(extracted_data.manifest.cantidad,
                                   extracted_data.prefile.cantidad) THEN 1 ELSE 0
        /\ Len(UnitFindings(R3UnitNames[5]))
               = IF NumberErrorDue(extracted_data.manifest.peso_monto,
                                   extracted_data.prefile.peso_monto) THEN 1 ELSE 0

(***************************************************************************)
(* Spec: validate_all_rules on the document sets below, which put          *)
(* sentinels, mismatches and values of the wrong type in the fields each   *)
(* rule reads                                                              *)
(***************************************************************************)
\* values of the wrong type in a str field: None, and an int
NOT_A_STRING == IntValue(<<"7">>)

OfficeValues ==
    {Str(TIJUANA), Str(MEXICALI), Str(<<"t","i","j","u","a","n","a">>),
     Str(NO_ENCONTRADO), Str(NO_LEGIBLE), Str(<<>>), Str(<<" ">>), NoneValue,
     NOT_A_STRING}

OperatorValues ==
    {Str(JUAN_PEREZ_GARCIA), Str(MARIA_GONZALEZ_LOPEZ), Str(<<"J","u","a","n"," ","P","e","r","e","z">>),
     Str(NO_ENCONTRADO), Str(NO_LEGIBLE), Str(<<>>), Str(<<" ">>), NoneValue,
     NOT_A_STRING}

DriverNames ==
    {Str(JUAN_PEREZ_GARCIA), Str(MARIA_GONZALEZ_LOPEZ), Str(<<"g","a","r","c","i","a"," ","j","u","a","n"," ","p","e","r","e","z">>),
     Str(NO_LEGIBLE), Str(<<>>), Str(<<" "," ">>), NoneValue, NOT_A_STRING}

SomePlateValues ==
    {Str(PLATE_ABC), Str(PLATE_WRONG), Str(NO_ENCONTRADO), Str(NO_LEGIBLE),
     Str(<<"n","o","_","l","e","g","i","b","l","e">>), NoneValue, NOT_A_STRING}

Confidences == {Float(950), NoneNumber, Str(<<"h","i","g","h">>)}

SomeEntryValues ==
    {Str(ENTRY_VALID), Str(ENTRY_DIFFERENT), Str(NO_ENCONTRADO), Str(NO_LEGIBLE),
     NoneValue, NOT_A_STRING}

SomeDescriptionValues ==
    {Str(PRODUCTOS), Str(<<"R","o","p","a">>), Str(NO_ENCONTRADO), Str(NO_LEGIBLE),
     NOT_A_STRING}

SomeNumbers == {Float(100000), Float(100020), Float(0), NoneNumber}

WithOffices(data, seccion_aduanera, aduana_arribo) ==
    [data EXCEPT !.doda.seccion_aduanera = seccion_aduanera,
                 !.manifest.aduana_arribo = aduana_arribo]

\* a document set and a user name, one rule's fields varied at a time
Requests(now) ==
    LET valid == create_valid_data(now)
    IN  {<<[valid EXCEPT !.doda.fecha_emision = f], valid_driver_name>> :
            f \in FechaValues(now)}
        \cup
        {<<[WithPlates(valid, mt, pt, Str(PLATE_XYZ), Str(PLATE_XYZ))
                EXCEPT !.tractor_plate.confidence = c], valid_driver_name>> :
            mt \in SomePlateValues, pt \in SomePlateValues, c \in Confidences}
        \cup
        {<<[WithPlates(valid, Str(PLATE_ABC), Str(PLATE_ABC), mr, pr)
                EXCEPT !.trailer_plate.confidence = c], valid_driver_name>> :
            mr \in SomePlateValues, pr \in SomePlateValues, c \in Confidences}
        \cup
        {<<WithDescriptions(WithEntries(valid, em, ep), dm, dp), valid_driver_name>> :
            em \in SomeEntryValues, ep \in SomeEntryValues,
            dm \in SomeDescriptionValues, dp \in SomeDescriptionValues}
        \cup
        {<<WithNumbers(valid, <<cm, cp>>, <<pm, pp>>), valid_driver_name>> :
            cm \in SomeNumbers, cp \in SomeNumbers,
            pm \in SomeNumbers, pp \in SomeNumbers}
        \cup
        {<<WithOffices(valid, s, a), valid_driver_name>> :
            s \in OfficeValues, a \in OfficeValues}
        \cup
        {<<[valid EXCEPT !.manifest.nombre_operador = o], n>> :
            o \in OperatorValues, n \in DriverNames}

\* a value of the wrong type, or the valid one, in one field of each unit
\* at once; the user name is valid, wrong or of the wrong type
FaultedRequests(now) ==
    LET valid == create_valid_data(now)
    IN  {<<WithOffices(
              WithNumbers(
                  WithDescriptions(
                      WithEntries(
                          [WithPlates(valid, Str(PLATE_ABC), pt, mr, Str(PLATE_XYZ))
                               EXCEPT !.doda.fecha_emision = f],
                          em, Str(ENTRY_VALID)),
                      Str(PRODUCTOS), dp),
                  <<cm, Float(100000)>>, <<Float(5000500), pp>>),
              s, Str(TIJUANA)), n>> :
            f \in {valid.doda.fecha_emision, NOT_A_STRING},
            pt \in {Str(PLATE_ABC), NOT_A_STRING},
            mr \in {Str(PLATE_XYZ), NOT_A_STRING},
            em \in {Str(ENTRY_VALID), NOT_A_STRING},
            dp \in {Str(PRODUCTOS), NOT_A_STRING},
            cm \in {Float(100000), NoneNumber},
            pp \in {Float(5000500), NoneNumber},
            s \in {Str(TIJUANA), NOT_A_STRING},
            n \in {valid_driver_name, Str(MARIA_GONZALEZ_LOPEZ), NOT_A_STRING}}

Init ==
    \E r \in Requests(Noon) \cup FaultedRequests(Noon) : Entered(r[1], r[2], Noon)

Spec == Init /\ [][Next]_vars

IsSentinel(x) == IsStr(x) /\ x.v \in Sentinels

\* C1: a sentinel is never counted as a match: when a field a rule compares
\* holds "NO_ENCONTRADO" or "NO_LEGIBLE" (a plate of a pair in R2, an entry
\* number or a description in R3, a customs office in R4, the operator name
\* of the manifest in R5), the plate check, sub-check or rule that compares
\* it emits a finding, whatever the other side holds.
C1_SentinelNeverPasses ==
    pc = "returned" =>
        LET m == extracted_data.manifest
            p == extracted_data.prefile
        IN  /\ (IsSentinel(m.placa_tracto)
                    \/ IsSentinel(extracted_data.tractor_plate.plate_number))
                   => UnitFindings("Coincidencia de Placas - Tracto") # <<>>
            /\ (IsSentinel(m.placa_remolque)
                    \/ IsSentinel(extracted_data.trailer_plate.plate_number))
                   => UnitFindings("Coincidencia de Placas - Remolque") # <<>>
            /\ (IsSentinel(m.numero_entry) \/ IsSentinel(p.numero_entry))
                   => UnitFindings(R3UnitNames[1]) # <<>>
            /\ (IsSentinel(m.descripcion_mercancia)
                    \/ IsSentinel(p.descripcion_mercancia))
                   => UnitFindings(R3UnitNames[3]) # <<>>
            /\ (IsSentinel(extracted_data.doda.seccion_aduanera)
                    \/ IsSentinel(m.aduana_arribo))
                   => FindingsOf("R4") # <<>>
            /\ IsSentinel(m.nombre_operador) => FindingsOf("R5") # <<>>

\* the two descriptions are strings, neither the not-found sentinel, and do
\* not match at the relaxed threshold
DescriptionMismatch ==
    LET dm == extracted_data.manifest.descripcion_mercancia
        dp == extracted_data.prefile.descripcion_mercancia
    IN  /\ IsStr(dm) /\ IsStr(dp)
        /\ dm.v # NO_ENCONTRADO /\ dp.v # NO_ENCONTRADO
        /\ ~strings_match(dm.v, dp.v, RELAXED_THRESHOLD)

\* C8: a finding of severity warning arises only in the description
\* sub-check of R3, from a mismatch of the two descriptions at threshold
\* 0.7, and such a mismatch always gives a warning; a missing description,
\* the other sub-checks of R3 and R1, R2, R4, R5, fallback findings
\* included, give severity error.
C8_WarningOnlyFromDescription ==
    /\ \A i \in 1..Len(all_errors) :
           /\ all_errors[i].severity \in valid_severities
           /\ all_errors[i].severity = "warning"
                  <=> (all_errors[i].rule_name = R3UnitNames[3] /\ DescriptionMismatch)
    /\ (pc \in {"r4", "r5", "summary", "returned"} /\ DescriptionMismatch)
           => /\ Len(UnitFindings(R3UnitNames[3])) = 1
              /\ UnitFindings(R3UnitNames[3])[1].severity = "warning"

\* a validation returned with a warning for the descriptions and errors of
\* another sub-check and of another rule
C8_Witness ==
    /\ pc = "returned"
    /\ \E i \in 1..Len(all_errors) : all_errors[i].severity = "warning"
    /\ \E i \in 1..Len(all_errors) :
           all_errors[i].rule_id = "R3" /\ all_errors[i].severity = "error"
    /\ extracted_data.manifest.numero_entry = NOT_A_STRING

\* the ten units of the evaluation in the order of the code: a rule, a
\* plate pair of R2, a sub-check of R3
UnitRules == <<"R1", "R2", "R2", "R3", "R3", "R3", "R3", "R3", "R4", "R5">>

UnitNames ==
    <<"Vigencia del DODA",
      "Coincidencia de Placas - Tracto", "Coincidencia de Placas - Remolque">>
    \o R3UnitNames \o <<"Coincidencia de Aduana", "Coincidencia de Operador">>

\* the outcome of the try block of unit n on the request under validation
UnitBody(n) ==
    LET m == extracted_data.manifest
        p == extracted_data.prefile
    IN  CASE n = 1 -> r1_body(extracted_data, hoy)
          [] n = 2 -> r2_plate_body(m.placa_tracto, extracted_data.tractor_plate,
                                    "Tracto")
          [] n = 3 -> r2_plate_body(m.placa_remolque, extracted_data.trailer_plate,
                                    "Remolque")
          [] n = 4 -> r3_entry_body(m, p)
          [] n = 5 -> r3_broker_body(m, p)
          [] n = 6 -> r3_description_body(m, p)
          [] n = 7 -> r3_number_body(m.cantidad, p.cantidad, "Cantidad")
          [] n = 8 -> r3_number_body(m.peso_monto, p.peso_monto, "Peso/Monto")
          [] n = 9 -> r4_body(extracted_data)
          [] n = 10 -> r5_body(extracted_data, driver_name)

\* the messages of the except handlers
FallbackMessages ==
    {"Error al validar vigencia del DODA", "Error al validar placa",
     "Error al validar numero de entry", "Error al validar broker",
     "Error al validar descripcion de mercancia", "Error al validar",
     "Error al validar coincidencia de aduana",
     "Error al validar coincidencia de operador"}

RECURSIVE UnitFindingsUpTo(_)
UnitFindingsUpTo(n) ==
    IF n = 0 THEN <<>>
    ELSE UnitFindingsUpTo(n - 1) \o UnitFindings(UnitNames[n])

\* C10: validate_all_rules never raises; a unit (a rule, a plate pair of R2,
\* a sub-check of R3) whose evaluation faults contributes exactly one
\* fallback finding of severity error under its own rule id, and every unit
\* that does not fault contributes what its own evaluation finds, in the
\* order of the code.
C10_NeverRaises ==
    /\ pc # "raised"
    /\ pc = "returned" =>
           /\ all_errors = UnitFindingsUpTo(Len(UnitNames))
           /\ \A n \in 1..Len(UnitNames) :
                  LET found == UnitFindings(UnitNames[n])
                      body == UnitBody(n)
                  IN  IF body.raised
                      THEN /\ Len(found) = 1
                           /\ found[1].rule_id = UnitRules[n]
                           /\ found[1].severity = "error"
                           /\ found[1].message \in FallbackMessages
                      ELSE found = body.errors

\* a validation returned in which a sub-check of R3 and R4 faulted, R1 passed
\* and R5 found a mismatch
C10_Witness ==
    /\ pc = "returned"
    /\ UnitBody(4).raised /\ UnitBody(9).raised
    /\ UnitBody(1) = Returns(<<>>)
    /\ ~UnitBody(10).raised /\ UnitBody(10).errors # <<>>
    /\ Len(all_errors) >= 4

(***************************************************************************)
(* The terse response of validate_documents (main.py).  A message is       *)
(* [phrase, counts]: the wording chosen and the numbers it interpolates.   *)
(***************************************************************************)
\* every finding counted, whatever its severity
CountSeverity_Any(errors, severity) == Len(errors)

\* len([e for e in validation_errors if e.severity == severity])
CountSeverity(errors, severity) ==
    Len(SelectSeq(errors, LAMBDA e : e.severity = severity))

ValidationResponse(success, message, errors) ==
    [success |-> success, message |-> message, errors |-> errors]

\* the response built from what validate_all_rules returned
terse_response(validation_errors) ==
    LET error_count == CountSeverity(validation_errors, "error")
        warning_count == CountSeverity(validation_errors, "warning")
        message ==
            IF error_count > 0
            THEN (IF warning_count > 0
                  THEN [phrase |-> "Se encontraron N error(es) de validacion y M advertencia(s)",
                        counts |-> <<error_count, warning_count>>]
                  ELSE [phrase |-> "Se encontraron N error(es) de validacion",
                        counts |-> <<error_count>>])
            ELSE [phrase |-> "Se encontraron M advertencia(s)",
                  counts |-> <<warning_count>>]
    IN  IF validation_errors # <<>>
        THEN ValidationResponse(FALSE, message, validation_errors)
        ELSE ValidationResponse(TRUE,
                 [phrase |-> "Todos los documentos son validos y consistentes",
                  counts |-> <<>>],
                 <<>>)

\* validate_documents after validate_all_rules returned
TerseResponse ==
    /\ pc = "returned"
    /\ call' = [fn |-> "validate_documents", response |-> terse_response(all_errors)]
    /\ pc' = "responded"
    /\ UNCHANGED <<extracted_data, driver_name, hoy, all_errors>>

(***************************************************************************)
(* validator_enhanced.py: one RuleValidationDetail per rule.  Of a detail  *)
(* the model keeps the rule id, the rule name, the status and the errors.  *)
(***************************************************************************)
\* str.upper for one character: the capital of an ASCII letter or of a
\* precomposed accented letter, anything else unchanged
char_upper(c) ==
    IF \E i \in DOMAIN LowerLetters : LowerLetters[i] = c
    THEN UpperLetters[CHOOSE i \in DOMAIN LowerLetters : LowerLetters[i] = c]
    ELSE CASE c = "a_acute" -> "A_acute" [] c = "e_acute" -> "E_acute"
           [] c = "i_acute" -> "I_acute" [] c = "o_acute" -> "O_acute"
           [] c = "u_acute" -> "U_acute" [] c = "n_tilde" -> "N_tilde"
           [] OTHER -> c

str_upper(s) == [i \in 1..Len(s) |-> char_upper(s[i])]

\* the fields of ComparisonDetail the report reads; value1 and value2 are
\* the characters of the two str
ComparisonDetail(label, value1, value2, source1, source2, matches) ==
    [label |-> label, value1 |-> value1, value2 |-> value2,
     source1 |-> source1, source2 |-> source2, matches |-> matches]

\* Optional[str]: a text, or None
Recommendation(text) == [ty |-> "str", text |-> text]
NoRecommendation == [ty |-> "NoneType", text |-> ""]

RuleValidationDetail(rule_id, rule_name, status, comparisons, errors, recommendation) ==
    [rule_id |-> rule_id, rule_name |-> rule_name, status |-> status,
     comparisons |-> comparisons, errors |-> errors,
     recommendation |-> recommendation]

ReturnsDetail(detail) == [raised |-> FALSE, detail |-> detail]
RaisesDetail == [raised |-> TRUE, detail |-> NoneValue]

\* "failed" if error else "passed": the status of R1, R2, R4 and R5
\* every rule reported as failed
FailedOrPassed_AlwaysFailed(errors) == "failed"

FailedOrPassed(errors) == IF errors # <<>> THEN "failed" ELSE "passed"

\* datetime.fromisoformat(fecha_emision) returns: the value is a str naming
\* a day of the calendar as YYYY-MM-DD, two digits for month and day (the
\* other ISO 8601 forms it reads are not among the dates the model draws)
FromIsoformatParses(fecha_emision) ==
    /\ IsStr(fecha_emision)
    /\ Len(fecha_emision.v) = 10
    /\ \A i \in {6, 7, 9, 10} : IsDigit(fecha_emision.v[i])
    /\ strptime(fecha_emision.v).ok

\* the bare except of the failed branch answers when fromisoformat raises
enhance_r1_validation(data, now) ==
    LET error == validate_r1_doda_vigencia(data, now).errors
    IN  ReturnsDetail(
            IF error # <<>>
            THEN RuleValidationDetail("R1", "Vigencia del DODA", "failed", <<>>, error,
                     IF FromIsoformatParses(data.doda.fecha_emision)
                     THEN Recommendation("Solicitar DODA actualizado antes de cruzar")
                     ELSE Recommendation("Verificar manualmente la fecha del DODA"))
            ELSE RuleValidationDetail("R1", "Vigencia del DODA", "passed", <<>>, <<>>,
                                      NoRecommendation))

\* placa.upper() outside any try: AttributeError on a value that is no str
enhance_r2_validation(data) ==
    LET errors == validate_r2_placas(data).errors
        placa_tracto_foto == data.tractor_plate.plate_number
        placa_tracto_manifest == data.manifest.placa_tracto
        placa_remolque_foto == data.trailer_plate.plate_number
        placa_remolque_manifest == data.manifest.placa_remolque
        tracto_matches == str_upper(placa_tracto_foto.v) = str_upper(placa_tracto_manifest.v)
        remolque_matches ==
            str_upper(placa_remolque_foto.v) = str_upper(placa_remolque_manifest.v)
        comparisons ==
            <<ComparisonDetail("Placa Tracto", placa_tracto_foto.v,
                               placa_tracto_manifest.v, "Foto", "Manifest",
                               tracto_matches),
              ComparisonDetail("Placa Remolque", placa_remolque_foto.v,
                               placa_remolque_manifest.v, "Foto", "Manifest",
                               remolque_matches)>>
    IN  IF \/ ~IsStr(placa_tracto_foto) \/ ~IsStr(placa_tracto_manifest)
           \/ ~IsStr(placa_remolque_foto) \/ ~IsStr(placa_remolque_manifest)
        THEN RaisesDetail
        ELSE ReturnsDetail(
                 RuleValidationDetail("R2", "Coincidencia de Placas",
                     FailedOrPassed(errors), comparisons, errors,
                     IF errors # <<>> THEN Recommendation("Verificar las placas fisicas del vehiculo")
                     ELSE NoRecommendation))

\* fewer findings than the limit make R3 a warning
R3Status_AtMostThree(errors) ==
    IF errors = <<>> THEN "passed"
    ELSE IF Len(errors) <= 3 THEN "warning" ELSE "failed"

\* "warning" if len(errors) < 3 else "failed", "passed" without errors
R3Status(errors) ==
    IF errors = <<>> THEN "passed"
    ELSE IF Len(errors) < 3 THEN "warning" ELSE "failed"

\* ComparisonDetail(value1=manifest.numero_entry, ...) rejects a value that
\* is no str, and cantidad > 0 raises TypeError on None
enhance_r3_validation(data) ==
    LET errors == validate_r3_cruce_manifest_prefile(data).errors
        manifest == data.manifest
        prefile == data.prefile
        entry_matches == manifest.numero_entry = prefile.numero_entry
        broker_matches ==
            ~EqLit(manifest.broker, NO_ENCONTRADO) /\ ~EqLit(prefile.broker, NO_ENCONTRADO)
        comparisons ==
            <<ComparisonDetail("Entry Number", manifest.numero_entry.v,
                               prefile.numero_entry.v, "Manifest", "Prefile",
                               entry_matches),
              ComparisonDetail("Broker", manifest.broker.v, prefile.broker.v,
                               "Manifest", "Prefile", broker_matches)>>
    IN  IF \/ ~IsStr(manifest.numero_entry) \/ ~IsStr(prefile.numero_entry)
           \/ ~IsStr(manifest.broker) \/ ~IsStr(prefile.broker)
           \/ manifest.cantidad.ty # "float" \/ prefile.cantidad.ty # "float"
           \/ manifest.peso_monto.ty # "float" \/ prefile.peso_monto.ty # "float"
        THEN RaisesDetail
        ELSE ReturnsDetail(
                 RuleValidationDetail("R3", "Cruce Manifest vs Prefile",
                     R3Status(errors), comparisons, errors,
                     IF errors # <<>> THEN Recommendation("Verificar manualmente los campos faltantes")
                     ELSE NoRecommendation))

\* the comparison is listed in the passed branch only
enhance_r4_validation(data) ==
    LET error == validate_r4_aduana(data).errors
        seccion_doda == data.doda.seccion_aduanera
        aduana_manifest == data.manifest.aduana_arribo
    IN  ReturnsDetail(
            IF error # <<>>
            THEN RuleValidationDetail("R4", "Coincidencia de Aduana", "failed", <<>>,
                     error, Recommendation("Verificar manualmente seccion aduanera en DODA"))
            ELSE RuleValidationDetail("R4", "Coincidencia de Aduana", "passed",
                     <<ComparisonDetail("Aduana", seccion_doda.v, aduana_manifest.v,
                                        "DODA", "Manifest", TRUE)>>,
                     <<>>, NoRecommendation))

\* with an error, ComparisonDetail(value1=nombre_formulario,
\* value2=nombre_manifest, ...) rejects a value that is no str
enhance_r5_validation(data, name) ==
    LET error == validate_r5_operador(data, name).errors
        nombre_formulario == name
        nombre_manifest == data.manifest.nombre_operador
        comparisons ==
            <<ComparisonDetail("Operador", nombre_formulario.v, nombre_manifest.v,
                               "Formulario", "Manifest", error = <<>>)>>
    IN  IF error # <<>> /\ (~IsStr(nombre_formulario) \/ ~IsStr(nombre_manifest))
        THEN RaisesDetail
        ELSE ReturnsDetail(
                 RuleValidationDetail("R5", "Coincidencia de Operador",
                     FailedOrPassed(error), comparisons, error,
                     IF error # <<>> THEN Recommendation("Verificar identidad del conductor")
                     ELSE NoRecommendation))

(***************************************************************************)
(* validate_all_rules_enhanced, one step per element of its list of        *)
(* details, and the response validate_documents_enhanced builds from it    *)
(***************************************************************************)
\* a detail joins the list; an exception leaves validate_all_rules_enhanced
EnhanceStep(result, next) ==
    IF result.raised
    THEN pc' = "raised" /\ call' = call
    ELSE pc' = next /\ call' = [call EXCEPT !.rules = @ \o <<result.detail>>]

EnhanceR1 ==
    /\ pc = "e1"
    /\ EnhanceStep(enhance_r1_validation(extracted_data, hoy), "e2")
    /\ UNCHANGED <<extracted_data, driver_name, hoy, all_errors>>

EnhanceR2 ==
    /\ pc = "e2"
    /\ EnhanceStep(enhance_r2_validation(extracted_data), "e3")
    /\ UNCHANGED <<extracted_data, driver_name, hoy, all_errors>>

EnhanceR3 ==
    /\ pc = "e3"
    /\ EnhanceStep(enhance_r3_validation(extracted_data), "e4")
    /\ UNCHANGED <<extracted_data, driver_name, hoy, all_errors>>

EnhanceR4 ==
    /\ pc = "e4"
    /\ EnhanceStep(enhance_r4_validation(extracted_data), "e5")
    /\ UNCHANGED <<extracted_data, driver_name, hoy, all_errors>>

EnhanceR5 ==
    /\ pc = "e5"
    /\ EnhanceStep(enhance_r5_validation(extracted_data, driver_name), "rule_details")
    /\ UNCHANGED <<extracted_data, driver_name, hoy, all_errors>>

\* every detail counted, whatever its status
CountStatus_Any(rule_details, status) == Len(rule_details)

\* sum(1 for r in rule_details if r.status == status)
CountStatus(rule_details, status) ==
    Len(SelectSeq(rule_details, LAMBDA r : r.status = status))

\* partial whenever nothing failed, warnings or not
OverallStatus_NeverSuccess(failed_count, warning_count) ==
    IF failed_count = 0 THEN "partial" ELSE "failed"

OverallStatus(failed_count, warning_count) ==
    IF failed_count = 0 /\ warning_count = 0 THEN "success"
    ELSE IF failed_count = 0 THEN "partial"
    ELSE "failed"

RECURSIVE ExtendAll_FailedOnly(_, _)
\* only the rules reported as failed contribute their findings
ExtendAll_FailedOnly(rule_details, n) ==
    IF n > Len(rule_details) THEN <<>>
    ELSE (IF rule_details[n].status = "failed" THEN rule_details[n].errors ELSE <<>>)
             \o ExtendAll_FailedOnly(rule_details, n + 1)

RECURSIVE ExtendAll(_, _)
\* for rule in rule_details[n..]: all_errors.extend(rule.errors)
ExtendAll(rule_details, n) ==
    IF n > Len(rule_details) THEN <<>>
    ELSE rule_details[n].errors \o ExtendAll(rule_details, n + 1)

ValidationSummary(passed_rules, failed_rules, warning_rules, overall_status) ==
    [total_rules |-> 5, passed_rules |-> passed_rules, failed_rules |-> failed_rules,
     warning_rules |-> warning_rules, overall_status |-> overall_status]

enhanced_response(rule_details) ==
    LET passed_count == CountStatus(rule_details, "passed")
        failed_count == CountStatus(rule_details, "failed")
        warning_count == CountStatus(rule_details, "warning")
        overall_status == OverallStatus(failed_count, warning_count)
        message ==
            IF overall_status = "success"
            THEN [phrase |-> "Todos los documentos son validos y consistentes",
                  counts |-> <<>>]
            ELSE IF overall_status = "partial"
            THEN [phrase |-> "Se encontraron M advertencia(s)",
                  counts |-> <<warning_count>>]
            ELSE IF warning_count > 0
            THEN [phrase |-> "Se encontraron N error(es) de validacion y M advertencia(s)",
                  counts |-> <<failed_count, warning_count>>]
            ELSE [phrase |-> "Se encontraron N error(es) de validacion",
                  counts |-> <<failed_count>>]
    IN  [success |-> overall_status = "success",
         message |-> message,
         errors |-> ExtendAll(rule_details, 1),
         summary |-> ValidationSummary(passed_count, failed_count, warning_count,
                                       overall_status),
         rules |-> rule_details]

\* validate_documents_enhanced after validate_all_rules_enhanced returned
EnhancedResponse ==
    /\ pc = "rule_details"
    /\ all_errors' = ExtendAll(call.rules, 1)
    /\ call' = [fn |-> "validate_documents_enhanced",
                response |-> enhanced_response(call.rules)]
    /\ pc' = "responded"
    /\ UNCHANGED <<extracted_data, driver_name, hoy>>

NextApi ==
    \/ Next
    \/ TerseResponse
    \/ EnhanceR1 \/ EnhanceR2 \/ EnhanceR3 \/ EnhanceR4 \/ EnhanceR5
    \/ EnhancedResponse

\* validate_all_rules_enhanced is entered with the document set and the
\* user's data
EnteredEnhanced(data, name, now) ==
    /\ extracted_data = data
    /\ driver_name = name
    /\ hoy = now
    /\ pc = "e1"
    /\ all_errors = <<>>
    /\ call = [fn |-> "validate_all_rules_enhanced", rules |-> <<>>]

\* either endpoint, on the requests of Spec
InitApi ==
    \E r \in Requests(Noon) \cup FaultedRequests(Noon) :
        \/ Entered(r[1], r[2], Noon)
        \/ EnteredEnhanced(r[1], r[2], Noon)

SpecApi == InitApi /\ [][NextApi]_vars

\* the number of findings of all_errors with severity s
NumberOf(s) == Cardinality({i \in 1..Len(all_errors) : all_errors[i].severity = s})

\* C11: the terse response has success true iff validate_all_rules returned
\* no finding; with findings its message gives the number of errors, and
\* the number of warnings too if there are any, or the number of warnings
\* alone when there is no error; errors and warnings together are all the
\* findings returned.
C11_TerseResponse ==
    (pc = "responded" /\ call.fn = "validate_documents") =>
        LET response == call.response
        IN  /\ response.success = (all_errors = <<>>)
            /\ response.errors = all_errors
            /\ NumberOf("error") + NumberOf("warning") = Len(all_errors)
            /\ all_errors # <<>> =>
                   response.message =
                       IF NumberOf("error") > 0 /\ NumberOf("warning") > 0
                       THEN [phrase |-> "Se encontraron N error(es) de validacion y M advertencia(s)",
                             counts |-> <<NumberOf("error"), NumberOf("warning")>>]
                       ELSE IF NumberOf("error") > 0
                       THEN [phrase |-> "Se encontraron N error(es) de validacion",
                             counts |-> <<NumberOf("error")>>]
                       ELSE [phrase |-> "Se encontraron M advertencia(s)",
                             counts |-> <<NumberOf("warning")>>]

\* a terse response to a validation whose only finding is a warning
C11_Witness ==
    /\ pc = "responded" /\ call.fn = "validate_documents"
    /\ Len(all_errors) = 1 /\ all_errors[1].severity = "warning"
    /\ call.response.success = FALSE
    /\ call.response.message.counts = <<1>>

\* the details validate_all_rules_enhanced has produced so far, or returned
RuleDetails ==
    CASE call.fn = "validate_all_rules_enhanced" -> call.rules
      [] call.fn = "validate_documents_enhanced" -> call.response.rules
      [] OTHER -> <<>>

\* what the evaluator of rule r finds on the request under validation
RuleFindings(r) ==
    CASE r = "R1" -> validate_r1_doda_vigencia(extracted_data, hoy).errors
      [] r = "R2" -> validate_r2_placas(extracted_data).errors
      [] r = "R3" -> validate_r3_cruce_manifest_prefile(extracted_data).errors
      [] r = "R4" -> validate_r4_aduana(extracted_data).errors
      [] r = "R5" -> validate_r5_operador(extracted_data, driver_name).errors

\* C12: the status of a rule in the enriched report is passed iff the rule
\* produced no finding, warning iff it produced findings that are all
\* warnings or it is R3 with fewer than 3 findings, and failed otherwise.
C12_RuleStatus ==
    \A n \in 1..Len(RuleDetails) :
        LET rule == RuleDetails[n]
            found == RuleFindings(rule.rule_id)
            soft == \/ \A i \in 1..Len(found) : found[i].severity = "warning"
                    \/ rule.rule_id = "R3" /\ Len(found) < 3
        IN  /\ rule.errors = found
            /\ rule.status = "passed" <=> found = <<>>
            /\ rule.status = "warning" <=> (found # <<>> /\ soft)
            /\ rule.status = "failed" <=> (found # <<>> /\ ~soft)

\* an enriched report in which R3 has two findings, both errors, and the
\* status warning
C12_Witness ==
    /\ pc = "responded" /\ call.fn = "validate_documents_enhanced"
    /\ RuleDetails[3].status = "warning"
    /\ Len(RuleDetails[3].errors) = 2
    /\ \A i \in 1..2 : RuleDetails[3].errors[i].severity = "error"

\* the statuses of the rule outcomes of the report
Statuses == {RuleDetails[n].status : n \in 1..Len(RuleDetails)}

RuleOrder == <<"R1", "R2", "R3", "R4", "R5">>

\* C14: an enriched report holds exactly five rule outcomes, of R1, R2, R3,
\* R4, R5 in that order, each with status passed, failed or warning, so
\* passed_rules + failed_rules + warning_rules = total_rules = 5.
C14_FiveOutcomes ==
    /\ pc = "rule_details" =>
           /\ Len(RuleDetails) = 5
           /\ \A n \in 1..5 : RuleDetails[n].rule_id = RuleOrder[n]
    /\ (pc = "responded" /\ call.fn = "validate_documents_enhanced") =>
           LET summary == call.response.summary
           IN  /\ Len(RuleDetails) = 5
               /\ \A n \in 1..5 :
                      /\ RuleDetails[n].rule_id = RuleOrder[n]
                      /\ RuleDetails[n].status \in {"passed", "failed", "warning"}
               /\ summary.total_rules = 5
               /\ summary.passed_rules + summary.failed_rules + summary.warning_rules
                      = summary.total_rules

\* an enriched report with four rules passed and one failed
C14_Witness ==
    /\ pc = "responded" /\ call.fn = "validate_documents_enhanced"
    /\ call.response.summary.passed_rules = 4
    /\ call.response.summary.failed_rules = 1
    /\ call.response.summary.warning_rules = 0

(***************************************************************************)
(* The data sets of test_validator.py                                      *)
(***************************************************************************)
\* create_valid_data with the changes of the named create_invalid_data_rN
WithChanges(now, changed) ==
    LET valid == create_valid_data(now)
    IN  <<[valid EXCEPT
              !.doda.fecha_emision =
                  IF "R1" \in changed THEN Str(strftime(now.ordinal - 5)) ELSE @,
              !.tractor_plate.plate_number =
                  IF "R2" \in changed THEN Str(PLATE_WRONG) ELSE @,
              !.prefile.numero_entry =
                  IF "R3" \in changed THEN Str(ENTRY_DIFFERENT) ELSE @,
              !.manifest.aduana_arribo =
                  IF "R4" \in changed THEN Str(MEXICALI) ELSE @],
          IF "R5" \in changed THEN Str(MARIA_GONZALEZ_LOPEZ) ELSE valid_driver_name>>

create_invalid_data_r1(now) == WithChanges(now, {"R1"})
create_invalid_data_r2(now) == WithChanges(now, {"R2"})
create_invalid_data_r3(now) == WithChanges(now, {"R3"})
create_invalid_data_r4(now) == WithChanges(now, {"R4"})
create_invalid_data_r5(now) == WithChanges(now, {"R5"})

(***************************************************************************)
(* SpecAnyOrder: the five rule evaluators of validate_all_rules called on  *)
(* one request in any order, each reading the clock value hoy, their       *)
(* results merged once all five are in                                     *)
(***************************************************************************)
\* the merge in the order the evaluators finished
RECURSIVE MergeFindings_AsFinished(_, _)
MergeFindings_AsFinished(results, finished) ==
    IF finished = <<>> THEN <<>>
    ELSE results[Head(finished)] \o MergeFindings_AsFinished(results, Tail(finished))

\* all_errors as validate_all_rules fills it: R1, R2, R3, R4, R5
MergeFindings(results, finished) ==
    results["R1"] \o results["R2"] \o results["R3"] \o results["R4"] \o results["R5"]

\* the evaluator of rule r runs and its result is kept
Task(r) ==
    /\ pc = "tasks"
    /\ r \notin DOMAIN call.results
    /\ call' = [call EXCEPT !.results = (r :> RuleFindings(r)) @@ @,
                            !.finished = Append(@, r)]
    /\ UNCHANGED <<extracted_data, driver_name, hoy, pc, all_errors>>

\* the five results are in: they are merged and returned
Join ==
    /\ pc = "tasks"
    /\ DOMAIN call.results = valid_rules
    /\ all_errors' = MergeFindings(call.results, call.finished)
    /\ pc' = "returned"
    /\ UNCHANGED <<call, extracted_data, driver_name, hoy>>

NextAnyOrder == (\E r \in valid_rules : Task(r)) \/ Join

InitAnyOrder ==
    \E r \in {WithChanges(Noon, changed) : changed \in SUBSET valid_rules} :
        /\ extracted_data = r[1]
        /\ driver_name = r[2]
        /\ hoy = Noon
        /\ pc = "tasks"
        /\ all_errors = <<>>
        /\ call = [fn |-> "rules_in_any_order", results |-> <<>>, finished |-> <<>>]

SpecAnyOrder == InitAnyOrder /\ [][NextAnyOrder]_vars

\* the findings of the run R1, R2, R3, R4, R5 of validate_all_rules
SequentialFindings ==
    RuleFindings("R1") \o RuleFindings("R2") \o RuleFindings("R3")
        \o RuleFindings("R4") \o RuleFindings("R5")

Delays == {0, 1, 86400}

\* the clock delay seconds after now
Later(now, delay) ==
    [ordinal |-> now.ordinal + (now.second + delay) \div 86400,
     second |-> (now.second + delay) % 86400]

\* the caller keeps the first result and calls the same function again with
\* the same arguments
CallAgain ==
    /\ pc \in {"returned", "rule_details"}
    /\ "previous" \notin DOMAIN call
    /\ \E delay \in Delays : hoy' = Later(hoy, delay)
    /\ IF pc = "returned"
       THEN /\ call' = [fn |-> "validate_all_rules", previous |-> all_errors]
            /\ pc' = "r1"
       ELSE /\ call' = [fn |-> "validate_all_rules_enhanced", rules |-> <<>>,
                        previous |-> call.rules]
            /\ pc' = "e1"
    /\ all_errors' = <<>>
    /\ UNCHANGED <<extracted_data, driver_name>>

NextRepeated ==
    \/ Next
    \/ EnhanceR1 \/ EnhanceR2 \/ EnhanceR3 \/ EnhanceR4 \/ EnhanceR5
    \/ CallAgain

\* the test-suite data with an emission date of 0 to MaxDaysBack days ago
InitRepeated ==
    \E now \in Instants, k \in 0..MaxDaysBack :
        LET data == [create_valid_data(now) EXCEPT
                         !.doda.fecha_emision = Str(strftime(now.ordinal - k))]
        IN  \/ Entered(data, valid_driver_name, now)
            \/ EnteredEnhanced(data, valid_driver_name, now)

SpecRepeated == InitRepeated /\ [][NextRepeated]_vars

\* C16: a second call with the same document set and user data returns the
\* findings (for validate_all_rules_enhanced, the rule details) of the first.
C16_Deterministic ==
    "previous" \in DOMAIN call =>
        /\ pc = "returned" => all_errors = call.previous
        /\ pc = "rule_details" => call.rules = call.previous

(***************************************************************************)
(* SpecScenarios: both endpoints on the data sets of test_validator.py,    *)
(* built and validated at each of Instants                                 *)
(***************************************************************************)
TestScenarios == {{}, {"R1"}, {"R2"}, {"R3"}, {"R4"}, {"R5"}}

InitScenarios ==
    \E now \in Instants, changed \in TestScenarios :
        LET r == WithChanges(now, changed)
        IN  \/ Entered(r[1], r[2], now)
            \/ EnteredEnhanced(r[1], r[2], now)

SpecScenarios == InitScenarios /\ [][NextApi]_vars

\* the request under validation is create_valid_data with the named changes
Scenario(changed) == <<extracted_data, driver_name>> = WithChanges(hoy, changed)

\* validate_all_rules returned all_errors
ReturnedFindings ==
    /\ call.fn \in {"none", "validate_documents"}
    /\ pc \in {"returned", "responded"}

\* validate_documents_enhanced built its response
EnhancedReport == call.fn = "validate_documents_enhanced" /\ pc = "responded"

\* the statuses of the five rules in the enriched report
ReportStatuses == [i \in 1..5 |-> call.response.rules[i].status]

\* C17: on the all-valid data of the test suite validate_all_rules returns no
\* finding and the overall status of the enriched report is success.
C17_AllValid ==
    Scenario({}) =>
        /\ ReturnedFindings => all_errors = <<>>
        /\ EnhancedReport =>
               /\ call.response.summary.overall_status = "success"
               /\ call.response.success
               /\ call.response.errors = <<>>

\* the enriched report on the all-valid data, built in the last second of
\* the day
C17_Witness ==
    /\ Scenario({}) /\ EnhancedReport
    /\ hoy.second = 86399
    /\ call.response.summary.passed_rules = 5

\* C18: each of the changes of an emission date 5 days old, the photo
\* tractor plate WRONG-123, the arrival office Mexicali and the user's name
\* Maria Gonzalez Lopez, made alone on the all-valid data, gives exactly one
\* finding, an error with the id of the rule concerned (for R2, of the
\* tractor pair), and leaves the other four rules passed.
C18_SingleRuleChange ==
    \A r \in {"R1", "R2", "R4", "R5"} :
        Scenario({r}) =>
            /\ ReturnedFindings =>
                   /\ Len(all_errors) = 1
                   /\ all_errors[1].rule_id = r
                   /\ all_errors[1].severity = "error"
                   /\ r = "R2" =>
                          all_errors[1].rule_name = "Coincidencia de Placas - Tracto"
                   /\ \A q \in valid_rules \ {r} : RuleFindings(q) = <<>>
            /\ EnhancedReport =>
                   /\ ReportStatuses
                          = [i \in 1..5 |-> IF RuleOrder[i] = r THEN "failed"
                                            ELSE "passed"]
                   /\ Len(call.response.errors) = 1
                   /\ call.response.errors[1].rule_id = r

\* validate_all_rules returned on the data with the photo tractor plate
\* WRONG-123
C18_Witness ==
    /\ Scenario({"R2"}) /\ ReturnedFindings
    /\ Len(all_errors) = 1
    /\ all_errors[1].rule_id = "R2"

C20_OneFindingAsTested ==
    (Scenario({"R3"}) /\ ReturnedFindings) => Len(all_errors) = 1

\* C21: strings_match is symmetric: for all strings a, b and thresholds t,
\* strings_match(a, b, t) = strings_match(b, a, t).
C21_MatcherSymmetric ==
    (call.fn = "strings_match" /\ call.done)
    => call.ret = strings_match(call.str2, call.str1, call.threshold)

\* a match by containment of the first string in the second alone, and a
\* match by the word sets alone
C21_Witness ==
    /\ call.fn = "strings_match" /\ call.done /\ call.ret
    /\ LET norm1 == normalize_string(call.str1)
           norm2 == normalize_string(call.str2)
       IN  \/ norm1 # <<>> /\ str_in(norm1, norm2) /\ ~str_in(norm2, norm1)
           \/ ~str_in(norm1, norm2) /\ ~str_in(norm2, norm1)

(***************************************************************************)
(* SpecNormalize: normalize_string called on every string of at most       *)
(* MaxTextLen characters of TextAlphabet, and again on its own result      *)
(***************************************************************************)
MaxTextLen == 3

TextAlphabet == {"a", "A", "e_acute", "E_acute", "n_tilde", "acute", " ", "\t", "-"}

RECURSIVE Texts(_)
Texts(n) ==
    IF n = 0 THEN {<<>>}
    ELSE Texts(n - 1) \cup {Append(s, c) : s \in Texts(n - 1), c \in TextAlphabet}

InitNormalize ==
    /\ call \in [fn : {"normalize_string"}, text : Texts(MaxTextLen),
                 done : {FALSE}, ret : {<<>>}]
    /\ extracted_data = NoneValue
    /\ driver_name = NoneValue
    /\ hoy = CHOOSE now \in Instants : now.second = 0
    /\ pc = "idle"
    /\ all_errors = <<>>

CallNormalizeString ==
    /\ call.fn = "normalize_string"
    /\ ~call.done
    /\ call' = [call EXCEPT !.done = TRUE, !.ret = normalize_string(call.text)]
    /\ UNCHANGED <<extracted_data, driver_name, hoy, pc, all_errors>>

\* the caller hands the result back as the next argument, as strings_match
\* does when it compares two texts already normalized upstream
CallOnResult ==
    /\ call.fn = "normalize_string"
    /\ call.done
    /\ call.ret # call.text
    /\ call' = [call EXCEPT !.done = FALSE, !.text = call.ret]
    /\ UNCHANGED <<extracted_data, driver_name, hoy, pc, all_errors>>

NextNormalize == CallNormalizeString \/ CallOnResult

SpecNormalize == InitNormalize /\ [][NextNormalize]_vars

\* C22: normalize_string is idempotent: normalizing its own result changes
\* nothing.
C22_NormalizeIdempotent ==
    (call.fn = "normalize_string" /\ call.done)
    => normalize_string(call.ret) = call.ret

\* a text with an accented capital, a bare combining mark and a run of
\* whitespace was normalized to something else
C22_Witness ==
    /\ call.fn = "normalize_string" /\ call.done
    /\ call.text = <<"E_acute", "\t", " ">> \/ call.text = <<" ", "acute", "A">>
    /\ call.ret \in {<<"e">>, <<"a">>}

\* the broker code the contract assigns to an entry number: its first three
\* digits, NO_ENCONTRADO when it is the sentinel, empty or has fewer
BrokerCodeDue(entry) ==
    LET digits == SelectSeq(entry.v, LAMBDA c : c \in Digits)
    IN  IF EntryMissing(entry) \/ Len(digits) < 3 THEN NO_ENCONTRADO
        ELSE <<digits[1], digits[2], digits[3]>>

\* C23: the broker sub-check of R3 emits one error when either entry number
\* has no broker code, otherwise one error iff the two three-digit codes
\* differ, and nothing iff both codes exist and are equal.
C23_R3BrokerCode ==
    pc = "r4" =>
        LET m == BrokerCodeDue(extracted_data.manifest.numero_entry)
            p == BrokerCodeDue(extracted_data.prefile.numero_entry)
            found == UnitFindings(R3UnitNames[2])
        IN  IF m = NO_ENCONTRADO \/ p = NO_ENCONTRADO
            THEN /\ Len(found) = 1
                 /\ found[1].severity = "error"
                 /\ found[1].message
                        = "No se pudo extraer el codigo de broker de uno o ambos documentos"
            ELSE IF m # p
            THEN /\ Len(found) = 1
                 /\ found[1].severity = "error"
                 /\ found[1].message = "El codigo de broker no coincide"
            ELSE found = <<>>

\* two entry numbers that differ and do not match, with the same code 202
\* once the other characters are deleted: an entry-number finding, no broker
\* finding
C23_Witness ==
    /\ pc = "r4"
    /\ extracted_data.manifest.numero_entry = Str(ENTRY_VALID)
    /\ extracted_data.prefile.numero_entry = Str(<<"2", "-", "0", "2">>)
    /\ UnitFindings(R3UnitNames[1]) # <<>>
    /\ UnitFindings(R3UnitNames[2]) = <<>>

\* C24: R4 emits at most one finding: the error naming the declaration when
\* its office is the sentinel or empty, else the error naming the manifest
\* when its arrival office is the sentinel or empty, else the mismatch error
\* iff the two offices do not fuzzy-match at the default threshold, else
\* nothing.
C24_R4Office ==
    pc = "r5" =>
        LET seccion_aduanera == extracted_data.doda.seccion_aduanera
            aduana_arribo == extracted_data.manifest.aduana_arribo
            found == FindingsOf("R4")
        IN  (IsStr(seccion_aduanera) /\ IsStr(aduana_arribo)) =>
                IF EqLit(seccion_aduanera, NO_ENCONTRADO) \/ seccion_aduanera.v = <<>>
                THEN /\ Len(found) = 1
                     /\ found[1].severity = "error"
                     /\ found[1].message
                            = "No se pudo extraer la seccion aduanera del DODA"
                ELSE IF EqLit(aduana_arribo, NO_ENCONTRADO) \/ aduana_arribo.v = <<>>
                THEN /\ Len(found) = 1
                     /\ found[1].severity = "error"
                     /\ found[1].message
                            = "No se pudo extraer la aduana de arribo del Manifiesto"
                ELSE IF ~FuzzyMatches(seccion_aduanera.v, aduana_arribo.v,
                                      DEFAULT_THRESHOLD)
                THEN /\ Len(found) = 1
                     /\ found[1].severity = "error"
                     /\ found[1].message = "La aduana no coincide"
                ELSE found = <<>>

\* C25: R5 emits at most one finding: an error when the manifest operator
\* name is the sentinel or empty, else an error when the user's name is
\* empty or whitespace only, else the mismatch error iff the two names do
\* not fuzzy-match at the relaxed threshold, else nothing.
C25_R5Operator ==
    pc = "summary" =>
        LET nombre_manifest == extracted_data.manifest.nombre_operador
            nombre_usuario == driver_name
            found == FindingsOf("R5")
        IN  (IsStr(nombre_manifest) /\ IsStr(nombre_usuario)) =>
                IF EqLit(nombre_manifest, NO_ENCONTRADO) \/ nombre_manifest.v = <<>>
                THEN /\ Len(found) = 1
                     /\ found[1].severity = "error"
                     /\ found[1].message
                            = "No se pudo extraer el nombre del operador del Manifiesto"
                ELSE IF IsBlank(nombre_usuario.v)
                THEN /\ Len(found) = 1
                     /\ found[1].severity = "error"
                     /\ found[1].message
                            = "No se ingreso el nombre del operador en el formulario"
                ELSE IF ~FuzzyMatches(nombre_manifest.v, nombre_usuario.v,
                                      RELAXED_THRESHOLD)
                THEN /\ Len(found) = 1
                     /\ found[1].severity = "error"
                     /\ found[1].message = "El nombre del operador no coincide"
                ELSE found = <<>>

\* a field holds a concrete value: a str that is neither a sentinel nor empty
Concrete(field) ==
    IsStr(field) /\ field.v # <<>> /\ field.v \notin {NO_ENCONTRADO, NO_LEGIBLE}

\* the comparison list pairs the two values with their source labels
Pairs(comparisons, value1, source1, value2, source2) ==
    \E i \in 1..Len(comparisons) :
        /\ comparisons[i].value1 = value1.v /\ comparisons[i].source1 = source1
        /\ comparisons[i].value2 = value2.v /\ comparisons[i].source2 = source2

\* C26: the outcome of R2, R3, R4 and R5 lists the comparison of the two
\* values, with their source labels, whenever the rule compared two concrete
\* values, a mismatch included; and an outcome has a recommendation iff its
\* status is not passed.
C26_ComparisonsAndRemedy ==
    \A i \in 1..Len(RuleDetails) :
        LET detail == RuleDetails[i]
            doda == extracted_data.doda
            manifest == extracted_data.manifest
            prefile == extracted_data.prefile
        IN  /\ (detail.recommendation # NoRecommendation) <=> (detail.status # "passed")
            /\ (detail.rule_id = "R2" /\ Concrete(manifest.placa_tracto)
                    /\ Concrete(extracted_data.tractor_plate.plate_number))
               => Pairs(detail.comparisons,
                        extracted_data.tractor_plate.plate_number, "Foto",
                        manifest.placa_tracto, "Manifest")
            /\ (detail.rule_id = "R2" /\ Concrete(manifest.placa_remolque)
                    /\ Concrete(extracted_data.trailer_plate.plate_number))
               => Pairs(detail.comparisons,
                        extracted_data.trailer_plate.plate_number, "Foto",
                        manifest.placa_remolque, "Manifest")
            /\ (detail.rule_id = "R3" /\ Concrete(manifest.numero_entry)
                    /\ Concrete(prefile.numero_entry))
               => Pairs(detail.comparisons, manifest.numero_entry, "Manifest",
                        prefile.numero_entry, "Prefile")
            /\ (detail.rule_id = "R4" /\ Concrete(doda.seccion_aduanera)
                    /\ Concrete(manifest.aduana_arribo))
               => Pairs(detail.comparisons, doda.seccion_aduanera, "DODA",
                        manifest.aduana_arribo, "Manifest")
            /\ (detail.rule_id = "R5" /\ Concrete(manifest.nombre_operador)
                    /\ Concrete(driver_name))
               => Pairs(detail.comparisons, driver_name, "Formulario",
                        manifest.nombre_operador, "Manifest")

(***************************************************************************)
(* Extraction reports (core/report_generator.py).  A confidence score is   *)
(* kept as the exact fraction [num, den] whose nearest double the code     *)
(* holds: a document's quotient extracted / total is correctly rounded,    *)
(* and the mean adds and divides five such doubles.                        *)
(***************************************************************************)
\* a common denominator of the scores: of halves, ninths, fifths and of the
\* thousandths of a photo confidence and their halves
ScoreDen == 18000

Score(num, den) == [num |-> num * (ScoreDen \div den), den |-> ScoreDen]

\* "confidence and confidence < 0.7" raises TypeError on a non-empty str
ConfidenceRaises(confidence) == confidence.ty = "str" /\ confidence.v # <<>>

\* the status generate_field_status gives a field
generate_field_status(field_name, value, confidence) ==
    LET status ==
            IF IsStr(value)
            THEN (IF value.v = NO_ENCONTRADO \/ value.v = NO_LEGIBLE
                  THEN "not_found" ELSE "success")
            ELSE IF value.ty \in {"int", "float"}
            THEN (IF IsZero(value) /\ field_name \in {"cantidad", "peso_monto"}
                  THEN "not_found" ELSE "success")
            ELSE "success"
    IN  IF confidence.ty = "float" /\ confidence.milli # 0 /\ confidence.milli < 700
        THEN "low_confidence"
        ELSE status

CountFieldStatus(fields, status) ==
    Cardinality({i \in 1..Len(fields) : fields[i] = status})

DocumentExtractionReport(document_type, fields, confidence_score) ==
    [document_type |-> document_type,
     total_fields |-> Len(fields),
     extracted_fields |-> CountFieldStatus(fields, "success"),
     not_found_fields |-> CountFieldStatus(fields, "not_found"),
     confidence_score |-> confidence_score]

\* extracted / total if total > 0 else 0.0
ExtractedOverTotal(fields) ==
    IF Len(fields) > 0 THEN Score(CountFieldStatus(fields, "success"), Len(fields))
    ELSE Score(0, 1)

generate_doda_report(doda) ==
    LET fields == <<generate_field_status("fecha_emision", doda.fecha_emision, NoneNumber),
                    generate_field_status("seccion_aduanera", doda.seccion_aduanera,
                                          NoneNumber)>>
    IN  DocumentExtractionReport("DODA", fields, ExtractedOverTotal(fields))

generate_manifest_report(manifest) ==
    LET fields ==
            <<generate_field_status("placa_tracto", manifest.placa_tracto, NoneNumber),
              generate_field_status("placa_remolque", manifest.placa_remolque, NoneNumber),
              generate_field_status("nombre_operador", manifest.nombre_operador, NoneNumber),
              generate_field_status("aduana_arribo", manifest.aduana_arribo, NoneNumber),
              generate_field_status("numero_entry", manifest.numero_entry, NoneNumber),
              generate_field_status("broker", manifest.broker, NoneNumber),
              generate_field_status("descripcion_mercancia",
                                    manifest.descripcion_mercancia, NoneNumber),
              generate_field_status("cantidad", manifest.cantidad, NoneNumber),
              generate_field_status("peso_monto", manifest.peso_monto, NoneNumber)>>
    IN  DocumentExtractionReport("E-Manifest", fields, ExtractedOverTotal(fields))

generate_prefile_report(prefile) ==
    LET fields ==
            <<generate_field_status("numero_entry", prefile.numero_entry, NoneNumber),
              generate_field_status("broker", prefile.broker, NoneNumber),
              generate_field_status("descripcion_mercancia",
                                    prefile.descripcion_mercancia, NoneNumber),
              generate_field_status("cantidad", prefile.cantidad, NoneNumber),
              generate_field_status("peso_monto", prefile.peso_monto, NoneNumber)>>
    IN  DocumentExtractionReport("Prefile", fields, ExtractedOverTotal(fields))

\* confidence_score = plate.confidence if plate.confidence else 0.0
PlateScore(plate, fields) ==
    IF plate.confidence.ty = "float" /\ plate.confidence.milli # 0
    THEN Score(plate.confidence.milli, 1000)
    ELSE Score(0, 1)

generate_plate_report(plate, plate_type) ==
    LET fields == <<generate_field_status("plate_number", plate.plate_number,
                                          plate.confidence)>>
    IN  DocumentExtractionReport("Placa_" \o plate_type, fields,
                                 PlateScore(plate, fields))

generate_all_extraction_reports(data) ==
    <<generate_doda_report(data.doda),
      generate_manifest_report(data.manifest),
      generate_prefile_report(data.prefile),
      generate_plate_report(data.tractor_plate, "tracto"),
      generate_plate_report(data.trailer_plate, "remolque")>>

RECURSIVE SumScores(_, _)
SumScores(extraction_reports, n) ==
    IF n = 0 THEN 0
    ELSE SumScores(extraction_reports, n - 1) + extraction_reports[n].confidence_score.num

\* 0.0 for no report, else the sum of the scores over their number
calculate_overall_confidence(extraction_reports) ==
    IF extraction_reports = <<>> THEN [num |-> 0, den |-> ScoreDen]
    ELSE [num |-> SumScores(extraction_reports, Len(extraction_reports)),
          den |-> ScoreDen * Len(extraction_reports)]

(***************************************************************************)
(* SpecReport: validate_documents_enhanced generates the extraction        *)
(* reports of a document set, then their average confidence                *)
(***************************************************************************)
GenerateReports ==
    /\ pc = "extraction"
    /\ IF ConfidenceRaises(extracted_data.tractor_plate.confidence)
          \/ ConfidenceRaises(extracted_data.trailer_plate.confidence)
       THEN pc' = "raised" /\ call' = call
       ELSE /\ pc' = "reports"
            /\ call' = [fn |-> "generate_all_extraction_reports",
                        extraction_reports
                            |-> generate_all_extraction_reports(extracted_data)]
    /\ UNCHANGED <<extracted_data, driver_name, hoy, all_errors>>

CalculateOverallConfidence ==
    /\ pc = "reports"
    /\ pc' = "confidence"
    /\ call' = [fn |-> "calculate_overall_confidence",
                extraction_reports |-> call.extraction_reports,
                confidence_avg
                    |-> calculate_overall_confidence(call.extraction_reports)]
    /\ UNCHANGED <<extracted_data, driver_name, hoy, all_errors>>

NextReport == GenerateReports \/ CalculateOverallConfidence

\* photo confidences between 0 and 1, absent, and a text
ReportConfidences ==
    {Float(0), Float(500), Float(700), Float(950), Float(1000), NoneNumber,
     Str(<<"h","i","g","h">>)}

ReportDocuments ==
    LET valid == create_valid_data(Noon)
    IN  {[valid EXCEPT !.doda.fecha_emision = f,
                       !.doda.seccion_aduanera = s,
                       !.manifest.numero_entry = e,
                       !.manifest.cantidad = c,
                       !.prefile.descripcion_mercancia = d,
                       !.prefile.peso_monto = p,
                       !.tractor_plate.plate_number = n,
                       !.tractor_plate.confidence = ct,
                       !.trailer_plate.confidence = cr] :
            f \in {valid.doda.fecha_emision, Str(NO_ENCONTRADO)},
            s \in {Str(TIJUANA), Str(NO_LEGIBLE), Str(<<>>)},
            e \in {Str(ENTRY_VALID), Str(NO_ENCONTRADO)},
            c \in {Float(100000), Float(0)},
            d \in {Str(PRODUCTOS), Str(NO_ENCONTRADO)},
            p \in {Float(5000500), Float(0), NoneNumber},
            n \in {Str(PLATE_ABC), Str(NO_LEGIBLE)},
            ct \in ReportConfidences,
            cr \in {Float(930), Float(600)}}

InitReport ==
    \E data \in ReportDocuments :
        /\ extracted_data = data
        /\ driver_name = valid_driver_name
        /\ hoy = Noon
        /\ pc = "extraction"
        /\ all_errors = <<>>
        /\ call = NoCall

SpecReport == InitReport /\ [][NextReport]_vars

\* a field counts for the score: its value is no sentinel and, for cantidad
\* and peso_monto, not zero
FieldCounts(field_name, value) ==
    /\ ~(IsStr(value) /\ value.v \in {NO_ENCONTRADO, NO_LEGIBLE})
    /\ ~(field_name \in {"cantidad", "peso_monto"} /\ IsZero(value))

FieldsCounting(document, field_names) ==
    Cardinality({f \in field_names : FieldCounts(f, document[f])})

DodaFields == {"fecha_emision", "seccion_aduanera"}
PrefileFields == {"numero_entry", "broker", "descripcion_mercancia", "cantidad",
                  "peso_monto"}
ManifestFields ==
    PrefileFields \cup {"placa_tracto", "placa_remolque", "nombre_operador",
                        "aduana_arribo"}

\* the fraction of counting fields averaged with the photo confidence
PlateScoreDue(plate) ==
    [num |-> (FieldsCounting(plate, {"plate_number"}) * 1000 + plate.confidence.milli)
                 * (ScoreDen \div 2000),
     den |-> ScoreDen]

\* C27: the score of the declaration, the manifest and the pre-declaration
\* is the fraction of their fields that count; the score of a plate
\* document is that fraction averaged with the photo confidence; the
\* overall confidence is the mean of the five scores and lies in [0, 1].
C27_ExtractionConfidence ==
    pc = "confidence" =>
        LET reports == call.extraction_reports
            score(i) == reports[i].confidence_score
        IN  /\ score(1) = Score(FieldsCounting(extracted_data.doda, DodaFields), 2)
            /\ score(2) = Score(FieldsCounting(extracted_data.manifest, ManifestFields), 9)
            /\ score(3) = Score(FieldsCounting(extracted_data.prefile, PrefileFields), 5)
            /\ extracted_data.tractor_plate.confidence.ty = "float"
                   => score(4) = PlateScoreDue(extracted_data.tractor_plate)
            /\ extracted_data.trailer_plate.confidence.ty = "float"
                   => score(5) = PlateScoreDue(extracted_data.trailer_plate)
            /\ call.confidence_avg.num * 5
                   = (score(1).num + score(2).num + score(3).num + score(4).num
                          + score(5).num) * (call.confidence_avg.den \div ScoreDen)
            /\ 0 <= call.confidence_avg.num
            /\ call.confidence_avg.num <= call.confidence_avg.den

\* C28: on the same request at the same instant, the errors list of the
\* enriched response is the list validate_all_rules returns, finding for
\* finding in the same order, and the enriched success flag is the success
\* flag of the terse response.
C28_TerseEnrichedAgree ==
    LET validation_errors == SequentialFindings
    IN  /\ (call.fn = "validate_documents" /\ pc = "responded") =>
               call.response = terse_response(validation_errors)
        /\ (call.fn = "validate_documents_enhanced" /\ pc = "responded") =>
               /\ call.response.errors = validation_errors
               /\ call.response.success = terse_response(validation_errors).success

\* an enriched response with several findings, an error before a warning
C28_Witness ==
    /\ call.fn = "validate_documents_enhanced" /\ pc = "responded"
    /\ ~call.response.success
    /\ \E i, j \in 1..Len(call.response.errors) :
           /\ i < j
           /\ call.response.errors[i].severity = "error"
           /\ call.response.errors[j].severity = "warning"

\* C29: when the findings of an evaluation include one of severity error,
\* the enriched overall status is failed and the message reports errors; an
\* overall status of partial means that every finding is a warning.
C29_ErrorMeansFailed ==
    (call.fn = "validate_documents_enhanced" /\ pc = "responded"
        /\ \E i \in 1..Len(call.response.errors) :
               call.response.errors[i].severity = "error")
    => /\ call.response.summary.overall_status = "failed"
       /\ call.response.message.phrase
              \in {"Se encontraron N error(es) de validacion y M advertencia(s)",
                   "Se encontraron N error(es) de validacion"}

\* the findings the evaluator of rule r emits under rule name n
FoundBy(r, n) == SelectSeq(RuleFindings(r), LAMBDA e : e.rule_name = n)

\* the comparisons of an outcome that carry a label
Labelled(detail, label) ==
    {i \in 1..Len(detail.comparisons) : detail.comparisons[i].label = label}

\* every comparison of the outcome with the label is flagged matching iff
\* the unit of the rule emitted no finding
FlagAgrees(detail, label, unit) ==
    \A i \in Labelled(detail, label) :
        detail.comparisons[i].matches <=> (FoundBy(detail.rule_id, unit) = <<>>)

\* C30: the match flag of the R2 tractor and trailer comparisons and of the
\* R3 entry-number and broker comparisons is true iff the plate check or
\* sub-check on the same pair emitted no finding; a passed R2 outcome has
\* both comparisons flagged matching, and no comparison of two sentinel
\* values is flagged matching.
C30_MatchFlagIsVerdict ==
    \A k \in 1..Len(RuleDetails) :
        LET detail == RuleDetails[k]
        IN  /\ detail.rule_id = "R2" =>
                /\ FlagAgrees(detail, "Placa Tracto", "Coincidencia de Placas - Tracto")
                /\ FlagAgrees(detail, "Placa Remolque", "Coincidencia de Placas - Remolque")
                /\ detail.status = "passed" =>
                       \A i \in 1..Len(detail.comparisons) : detail.comparisons[i].matches
            /\ detail.rule_id = "R3" =>
                /\ FlagAgrees(detail, "Entry Number", R3UnitNames[1])
                /\ FlagAgrees(detail, "Broker", R3UnitNames[2])
            /\ \A i \in 1..Len(detail.comparisons) :
                   ({detail.comparisons[i].value1, detail.comparisons[i].value2}
                        \subseteq {NO_ENCONTRADO, NO_LEGIBLE})
                   => ~detail.comparisons[i].matches

====
